---------------------------- MODULE Spec2Model ----------------------------
(***************************************************************************)
(* README generator backend (src/unnamed/part_001, lines 1-973: the SSE   *)
(* server with OAuth) together with the part of the browser client that   *)
(* starts and stops a run (src/frontend/src/App.jsx).                      *)
(*                                                                         *)
(* Strings of the program are sequences of one-character strings, so that *)
(* includes / startsWith / endsWith / trim and the regular expression of  *)
(* parseGitHubUrl are computed on characters as the code computes them.    *)
(*                                                                         *)
(* One run of POST /generate-readme is a chain of steps, one step per     *)
(* resumption of the async handler after an await on the network.  The    *)
(* handlers of GET /progress/:sessionId, of the request's close event and *)
(* of the cleanup timer run between those steps.                           *)
(***************************************************************************)
EXTENDS Integers, Sequences, FiniteSets, TLC

(***************************************************************************)
(* Bounds of the model.                                                    *)
(***************************************************************************)
\* progress connections (GET /progress/:sessionId requests) the client opens
MaxConns == 1
\* entries one directory listing of the host holds at most
MaxItems == 2
\* entries the host serves in one crawl, over all listings, to a run without
\* a progress stream
MaxEntries == 5
\* the same, to a run whose client holds a progress stream
MaxSseEntries == 1
\* longest of the short file lists handed to selectImportantFiles directly
MaxFiles == 2
\* longest of the short texts handed to extractCodeSnippets directly
MaxTextLines == 3
\* longest list of analyses handed to generateSemanticAnalysis directly
MaxAnalyses == 2

(***************************************************************************)
(* Program constants.                                                      *)
(***************************************************************************)
\* fetchRepoFiles: if (depth > 3) return [] ; ... depth < 3
DepthBound == 3
\* fetchRepoFiles: Math.min(items.length, 150)
ItemCap == 150
\* fetchRepoFiles: item.size < 2 * 1024 * 1024
MaxFileSize == 2097152
\* performDeepCodeAnalysis: file.size < 1000000
MaxAnalyzeSize == 1000000
\* selectImportantFiles: .slice(0, 50)
TopN == 50

\* the null of parseGitHubUrl (a match has a non-empty owner and repo)
Null == [owner |-> <<>>, repo |-> <<>>]
NoConn == 0
NoSession == "none"
SessionIds == {"s1"}
Conns == 1..MaxConns

(***************************************************************************)
(* Characters.                                                             *)
(***************************************************************************)
Min(a, b) == IF a <= b THEN a ELSE b

\* String.prototype.includes
Includes(s, sub) ==
  \E i \in 0..(Len(s) - Len(sub)) : SubSeq(s, i + 1, i + Len(sub)) = sub

\* String.prototype.startsWith
StartsWith(s, p) == Len(p) <= Len(s) /\ SubSeq(s, 1, Len(p)) = p

\* String.prototype.endsWith
EndsWith(s, p) ==
  Len(p) <= Len(s) /\ SubSeq(s, Len(s) - Len(p) + 1, Len(s)) = p

IsSpace(c) == c \in {" ", "\n", "\t"}

\* String.prototype.trim
Trim(s) ==
  LET keep == {i \in 1..Len(s) : ~IsSpace(s[i])}
  IN  IF keep = {} THEN <<>>
      ELSE LET lo == CHOOSE i \in keep : \A j \in keep : i <= j
               hi == CHOOSE i \in keep : \A j \in keep : j <= i
           IN  SubSeq(s, lo, hi)

Digit(d) == <<"0","1","2","3","4","5","6","7","8","9">>[d + 1]

\* `${response.status}` of a three-digit status
StatusText(n) == <<Digit(n \div 100), Digit((n \div 10) % 10), Digit(n % 10)>>

\* Math.round(a / b) for a >= 0, b > 0
RoundDiv(a, b) == (2 * a + b) \div (2 * b)

StrGithubCom == <<"g","i","t","h","u","b",".","c","o","m","/">>
StrDotGit == <<".","g","i","t">>
StrRepoNotFound == <<"R","E","P","O","_","N","O","T","_","F","O","U","N","D">>
StrRepoPrivate == <<"R","E","P","O","_","P","R","I","V","A","T","E">>
StrAuthRequired == <<"A","U","T","H","_","R","E","Q","U","I","R","E","D">>
StrHttp == <<"H","T","T","P"," ">>
StrRepoInvalid == <<"R","E","P","O","_","I","N","V","A","L","I","D">>
StrRepoPrivateOrInvalid == <<"R","E","P","O","_","P","R","I","V","A","T","E","_","O","R","_","I","N","V","A","L","I","D">>
StrNoFiles == <<"N","o"," ","a","c","c","e","s","s","i","b","l","e"," ","f","i","l","e","s"," ","f","o","u","n","d"," ","i","n"," ","r","e","p","o","s","i","t","o","r","y">>
StrNoKey == <<"G","e","m","i","n","i"," ","A","P","I"," ","k","e","y"," ","n","o","t"," ","c","o","n","f","i","g","u","r","e","d">>
StrGeminiError == <<"G","e","m","i","n","i"," ","A","P","I"," ","e","r","r","o","r",":"," ">>
StrNoContent == <<"N","o"," ","c","o","n","t","e","n","t"," ","g","e","n","e","r","a","t","e","d"," ","b","y"," ","G","e","m","i","n","i"," ","A","P","I">>
StrUrlRequired == <<"R","e","p","o","s","i","t","o","r","y"," ","U","R","L"," ","i","s"," ","r","e","q","u","i","r","e","d">>
StrInvalidUrl == <<"I","n","v","a","l","i","d"," ","G","i","t","H","u","b"," ","U","R","L"," ","f","o","r","m","a","t">>
StrNotFoundLower == <<"n","o","t"," ","f","o","u","n","d">>
StrRateLimit == <<"R","a","t","e"," ","l","i","m","i","t">>
StrAuthError == <<"A","u","t","h","e","n","t","i","c","a","t","i","o","n"," ","r","e","q","u","i","r","e","d"," ","f","o","r"," ","r","e","p","o","s","i","t","o","r","y"," ","a","c","c","e","s","s">>

(***************************************************************************)
(* parseGitHubUrl: url.trim() matched against the regular expression of  *)
(* line 84: the literal "github.com/", a group of one or more non-slash   *)
(* characters (owner), a slash, a lazy group of one or more non-slash     *)
(* characters (repo), an optional ".git", an optional slash followed by   *)
(* anything, and the end of the string.                                    *)
(* The match is tried at every start position, leftmost first.  At a      *)
(* start position the owner is the run of non-slash characters up to the  *)
(* next slash (at least one), the repository segment is the run of        *)
(* non-slash characters after that slash (at least one); the lazy group   *)
(* takes the shortest non-empty prefix of the segment that leaves "" or   *)
(* ".git" before the end or the next slash.                                *)
(***************************************************************************)
\* index of the first "/" of s at or after position a, or Len(s) + 1
NextSlash(s, a) ==
  LET at == {k \in a..Len(s) : s[k] = "/"}
  IN  IF at = {} THEN Len(s) + 1 ELSE CHOOSE k \in at : \A j \in at : k <= j

MatchAt(s, p) ==
  LET a == p + Len(StrGithubCom)
      q == NextSlash(s, a)
      b == q + 1
      e == NextSlash(s, b) - 1
      seg == SubSeq(s, b, e)
  IN  IF a - 1 > Len(s) \/ SubSeq(s, p, a - 1) # StrGithubCom
         \/ q > Len(s) \/ q = a \/ e < b
      THEN Null
      ELSE [owner |-> SubSeq(s, a, q - 1),
            repo  |-> IF Len(seg) > Len(StrDotGit) /\ EndsWith(seg, StrDotGit)
                      THEN SubSeq(seg, 1, Len(seg) - Len(StrDotGit))
                      ELSE seg]

parseGitHubUrl(url) ==
  LET s == Trim(url)
      hits == {p \in 1..Len(s) : MatchAt(s, p) # Null}
  IN  IF hits = {} THEN Null
      ELSE MatchAt(s, CHOOSE p \in hits : \A j \in hits : p <= j)

(***************************************************************************)
(* parseGitHubUrl of src/backend/api/server.js (lines 364-375): the        *)
(* pattern above first, then the shorthand pattern: from the start to the  *)
(* end of the string, one or more characters that are neither a slash nor  *)
(* white space, a slash, and one or more such characters again.            *)
(***************************************************************************)
ShorthandMatch(s) ==
  LET q == NextSlash(s, 1)
  IN  IF q = 1 \/ q >= Len(s) \/ NextSlash(s, q + 1) <= Len(s)
         \/ \E k \in 1..Len(s) : IsSpace(s[k])
      THEN Null
      ELSE [owner |-> SubSeq(s, 1, q - 1), repo |-> SubSeq(s, q + 1, Len(s))]

parseGitHubUrlPatterns(url) ==
  IF parseGitHubUrl(url) # Null THEN parseGitHubUrl(url)
  ELSE ShorthandMatch(Trim(url))

(***************************************************************************)
(* makeRequest: the error thrown for a response that is not ok.            *)
(***************************************************************************)
makeRequestError(status) ==
  IF status = 404 THEN StrRepoNotFound
  ELSE IF status = 403 THEN StrRepoPrivate
  ELSE IF status = 401 THEN StrAuthRequired
  ELSE StrHttp \o StatusText(status)

(***************************************************************************)
(* checkRepoAccess, as a function of the status of its first request (no  *)
(* token), of its second request (with the user's token; made only after  *)
(* a 404 when a token exists) and of the presence of the token.  Only the *)
(* fields the /generate-readme handler reads are kept.                     *)
(***************************************************************************)
checkRepoAccess(s1, s2, userTok) ==
  IF s1 = 200 THEN [accessible |-> TRUE, error |-> <<>>, requiresAuth |-> FALSE]
  ELSE IF makeRequestError(s1) = StrRepoNotFound
  THEN IF userTok
       THEN IF s2 = 200
            THEN [accessible |-> TRUE, error |-> <<>>, requiresAuth |-> FALSE]
            ELSE IF makeRequestError(s2) = StrRepoNotFound
            THEN [accessible |-> FALSE, error |-> StrRepoInvalid,
                  requiresAuth |-> FALSE]
            ELSE [accessible |-> FALSE, error |-> makeRequestError(s2),
                  requiresAuth |-> FALSE]
       ELSE [accessible |-> FALSE, error |-> StrRepoPrivateOrInvalid,
             requiresAuth |-> TRUE]
  ELSE [accessible |-> FALSE, error |-> makeRequestError(s1),
        requiresAuth |-> (makeRequestError(s1) = StrRepoPrivate
                          \/ makeRequestError(s1) = StrAuthRequired)]

\* the error the handler throws when accessCheck.accessible is false
AccessError(check, userTok) ==
  IF check.requiresAuth /\ ~userTok THEN StrAuthRequired ELSE check.error

(***************************************************************************)
(* The status of the error response (catch block of /generate-readme).    *)
(***************************************************************************)
ErrorStatus(msg) ==
  IF msg = StrAuthRequired THEN 401
  ELSE IF Includes(msg, StrNotFoundLower) \/ Includes(msg, StrRepoInvalid) THEN 404
  ELSE IF Includes(msg, StrRateLimit) THEN 429
  ELSE IF Includes(msg, StrRepoPrivate) THEN 403
  ELSE 500

(***************************************************************************)
(* selectImportantFiles.                                                   *)
(***************************************************************************)
\* priorities[file.name] || 0
BasePriority(name) ==
  CASE name = <<"p","a","c","k","a","g","e",".","j","s","o","n">> -> 25
    [] name = <<"r","e","q","u","i","r","e","m","e","n","t","s",".","t","x","t">> -> 25
    [] name = <<"a","p","p",".","j","s">> -> 22
    [] name = <<"m","a","i","n",".","j","s">> -> 22
    [] name = <<"i","n","d","e","x",".","j","s">> -> 22
    [] name = <<"s","e","r","v","e","r",".","j","s">> -> 22
    [] name = <<"a","p","p",".","p","y">> -> 22
    [] name = <<"m","a","i","n",".","p","y">> -> 22
    [] name = <<"r","o","u","t","e","s",".","j","s">> -> 18
    [] name = <<"a","p","i",".","j","s">> -> 18
    [] name = <<"c","o","n","f","i","g",".","j","s">> -> 15
    [] name = <<"D","o","c","k","e","r","f","i","l","e">> -> 12
    [] name = <<"R","E","A","D","M","E",".","m","d">> -> 8
    [] name = <<".","e","n","v",".","e","x","a","m","p","l","e">> -> 10
    [] name = <<"d","o","c","k","e","r","-","c","o","m","p","o","s","e",".","y","m","l">> -> 10
    [] OTHER -> 0

Bonus(cond, n) == IF cond THEN n ELSE 0

Priority(name) ==
  BasePriority(name)
  + Bonus(Includes(name, <<"r","o","u","t","e">>) \/ Includes(name, <<"a","p","i">>), 15)
  + Bonus(Includes(name, <<"m","o","d","e","l">>) \/ Includes(name, <<"c","o","n","t","r","o","l","l","e","r">>), 12)
  + Bonus(Includes(name, <<"s","e","r","v","i","c","e">>) \/ Includes(name, <<"u","t","i","l","s">>), 10)
  + Bonus(Includes(name, <<"m","i","d","d","l","e","w","a","r","e">>) \/ Includes(name, <<"a","u","t","h">>), 8)
  + Bonus(EndsWith(name, <<".","j","s">>) \/ EndsWith(name, <<".","p","y">>), 8)
  + Bonus(EndsWith(name, <<".","j","s","x">>) \/ EndsWith(name, <<".","t","s">>), 8)
  + Bonus(EndsWith(name, <<".","v","u","e">>) \/ EndsWith(name, <<".","c","o","m","p","o","n","e","n","t",".","j","s">>), 6)

\* an insertion that puts an element before the elements of its priority
RECURSIVE InsertBeforeEqual(_, _)
InsertBeforeEqual(x, sorted) ==
  IF sorted = <<>> THEN <<x>>
  ELSE IF Head(sorted).priority > x.priority
       THEN <<Head(sorted)>> \o InsertBeforeEqual(x, Tail(sorted))
       ELSE <<x>> \o sorted

\* a sort that is not stable (C23 is checked against it)
RECURSIVE SortBeforeEqual(_)
SortBeforeEqual(fs) ==
  IF fs = <<>> THEN <<>>
  ELSE LET n == Len(fs)
       IN  InsertBeforeEqual(fs[n], SortBeforeEqual(SubSeq(fs, 1, n - 1)))

\* Array.prototype.sort((a, b) => b.priority - a.priority): stable, so an
\* element goes behind the elements whose priority is not smaller
RECURSIVE InsertByPriority(_, _)
InsertByPriority(x, sorted) ==
  IF sorted = <<>> THEN <<x>>
  ELSE IF Head(sorted).priority >= x.priority
       THEN <<Head(sorted)>> \o InsertByPriority(x, Tail(sorted))
       ELSE <<x>> \o sorted

RECURSIVE SortByPriority(_)
SortByPriority(fs) ==
  IF fs = <<>> THEN <<>>
  ELSE LET n == Len(fs)
       IN  InsertByPriority(fs[n], SortByPriority(SubSeq(fs, 1, n - 1)))

\* selectImportantFiles without its sort
selectImportantFilesUnsorted(fs) ==
  LET scored == [i \in 1..Len(fs) |->
                   [name |-> fs[i].name, path |-> fs[i].path, size |-> fs[i].size,
                    download_url |-> fs[i].download_url,
                    priority |-> Priority(fs[i].name)]]
  IN  SubSeq(scored, 1, Min(Len(scored), TopN))

selectImportantFiles(fs) ==
  LET scored == [i \in 1..Len(fs) |->
                   [name |-> fs[i].name, path |-> fs[i].path, size |-> fs[i].size,
                    download_url |-> fs[i].download_url,
                    priority |-> Priority(fs[i].name)]]
      sorted == SortByPriority(scored)
  IN  SubSeq(sorted, 1, Min(Len(sorted), TopN))

(***************************************************************************)
(* performDeepCodeAnalysis: the analyzer a file name selects (lines        *)
(* 287-291).  The analysis of a file is kept as its file name and the     *)
(* analyzer that produced it.                                              *)
(***************************************************************************)
ConfigNames ==
  {<<"p","a","c","k","a","g","e",".","j","s","o","n">>, <<"r","e","q","u","i","r","e","m","e","n","t","s",".","t","x","t">>, <<"D","o","c","k","e","r","f","i","l","e">>, <<".","e","n","v",".","e","x","a","m","p","l","e">>, <<"d","o","c","k","e","r","-","c","o","m","p","o","s","e",".","y","m","l">>}

AnalyzerFor(name) ==
  IF EndsWith(name, <<".","j","s">>) \/ EndsWith(name, <<".","j","s","x">>) \/ EndsWith(name, <<".","t","s">>)
     \/ EndsWith(name, <<".","t","s","x">>)
  THEN "analyzeJavaScriptCode"
  ELSE IF EndsWith(name, <<".","p","y">>) THEN "analyzePythonCode"
  ELSE IF name \in ConfigNames THEN "configuration"
  ELSE "analyzeCodeWithRegex"

\* file.download_url && file.size < 1000000
ShouldFetch(file) == file.download_url /\ file.size < MaxAnalyzeSize

(***************************************************************************)
(* extractCodeSnippets.  A text is the sequence of its lines               *)
(* (code.split('\n')); a line is kept as the class the tests of lines      *)
(* 146-151 put it in, so two lines of one class are the same text.  The    *)
(* empty text is the single line "empty".                                  *)
(***************************************************************************)
LineKinds == {"empty", "comment", "declaration", "call", "control", "binding", "other"}

\* .slice(0, Math.min(150, lines.length)) for the configuration files
ConfigLines == 150

\* a priority that puts the calls behind the other lines
LinePriorityCallsLast(kind) ==
  CASE kind \in {"empty", "comment"} -> 1
    [] kind = "declaration" -> 15
    [] kind = "call" -> 2
    [] kind = "control" -> 9
    [] kind = "binding" -> 7
    [] OTHER -> 5

\* the priority of a line (lines 146-151)
LinePriority(kind) ==
  CASE kind \in {"empty", "comment"} -> 1
    [] kind = "declaration" -> 15
    [] kind = "call" -> 12
    [] kind = "control" -> 9
    [] kind = "binding" -> 7
    [] OTHER -> 5

\* selectedLines.sort((a, b) => a.index - b.index): the k-th index of idx
KthIndex(idx, k) == CHOOSE i \in idx : Cardinality({j \in idx : j < i}) = k - 1

\* extractCodeSnippets without the second sort: the selected lines stay in
\* the order of their priorities
extractCodeSnippetsUnordered(lines, filename, maxLines) ==
  IF lines = <<"empty">> THEN lines
  ELSE IF Len(lines) <= maxLines THEN lines
  ELSE IF filename \in ConfigNames
  THEN SubSeq(lines, 1, Min(ConfigLines, Len(lines)))
  ELSE LET importantLines == [i \in 1..Len(lines) |->
                                [index |-> i, priority |-> LinePriority(lines[i])]]
           sorted == SortByPriority(importantLines)
           selectedLines == SubSeq(sorted, 1, Min(maxLines, Len(sorted)))
       IN  [k \in 1..Len(selectedLines) |-> lines[selectedLines[k].index]]

extractCodeSnippets(lines, filename, maxLines) ==
  IF lines = <<"empty">> THEN lines
  ELSE IF Len(lines) <= maxLines THEN lines
  ELSE IF filename \in ConfigNames
  THEN SubSeq(lines, 1, Min(ConfigLines, Len(lines)))
  ELSE LET importantLines == [i \in 1..Len(lines) |->
                                [index |-> i, priority |-> LinePriority(lines[i])]]
           sorted == SortByPriority(importantLines)
           selectedLines == SubSeq(sorted, 1, Min(maxLines, Len(sorted)))
           idx == {selectedLines[k].index : k \in 1..Len(selectedLines)}
       IN  [k \in 1..Cardinality(idx) |-> lines[KthIndex(idx, k)]]

\* maxLines = 300, the default the analyzers call extractCodeSnippets with
DefaultMaxLines == 300

(***************************************************************************)
(* analyzeCodeWithRegex and analyzeJavaScriptCode.  A source text is what   *)
(* the analyzers read of it: whether babelParser.parse returns (parse),    *)
(* whether traverse returns (walk: a visitor throws on a declaration       *)
(* without id), the sources of its import declarations (imports), the      *)
(* number of matches of each pattern of line 245 (counts) and its lines.   *)
(* Of the visitors of traverse only ImportDeclaration is kept.              *)
(***************************************************************************)
NumText(n) ==
  IF n < 10 THEN <<Digit(n)>>
  ELSE IF n < 100 THEN <<Digit(n \div 10), Digit(n % 10)>>
  ELSE StatusText(n)

\* the names of `patterns`, in the order of the object literal
PatternNames ==
  << <<"A","u","t","h","e","n","t","i","c","a","t","i","o","n">>,
     <<"D","a","t","a","b","a","s","e">>,
     <<"A","P","I">>,
     <<"F","i","l","e"," ","U","p","l","o","a","d">>,
     <<"E","m","a","i","l">>,
     <<"P","a","y","m","e","n","t">>,
     <<"M","a","c","h","i","n","e"," ","L","e","a","r","n","i","n","g">>,
     <<"D","a","t","a"," ","P","r","o","c","e","s","s","i","n","g">> >>

\* the outcome of a call that throws
Thrown == [threw |-> TRUE]

\* matches && matches.length > 2
Frequent(n) == n > 2

RECURSIVE RegexFeatures(_, _)
RegexFeatures(counts, k) ==
  IF k > Len(PatternNames) THEN <<>>
  ELSE (IF Frequent(counts[k]) THEN <<k>> ELSE <<>>) \o RegexFeatures(counts, k + 1)

analyzeCodeWithRegex(code, filename) ==
  LET found == RegexFeatures(code.counts, 1)
  IN  [filename |-> filename, type |-> "unknown", patterns |-> <<>>,
       features |-> [k \in 1..Len(found) |-> PatternNames[found[k]]],
       businessLogic |->
         [k \in 1..Len(found) |->
            PatternNames[found[k]] \o <<":"," ","F","o","u","n","d"," ">>
              \o NumText(code.counts[found[k]])
              \o <<" ","r","e","f","e","r","e","n","c","e","s">>],
       codeSnippets |-> extractCodeSnippets(code.lines, filename, DefaultMaxLines)]

\* `frameworks` of analyzeJavaScriptCode, in the order of the object literal
JsFrameworks ==
  << <<<<"r","e","a","c","t">>, <<"R","e","a","c","t">>>>,
     <<<<"e","x","p","r","e","s","s">>, <<"E","x","p","r","e","s","s",".","j","s">>>>,
     <<<<"m","o","n","g","o","o","s","e">>, <<"M","o","n","g","o","D","B","/","M","o","n","g","o","o","s","e">>>>,
     <<<<"s","o","c","k","e","t",".","i","o">>, <<"S","o","c","k","e","t",".","I","O">>>>,
     <<<<"j","w","t">>, <<"J","W","T"," ","A","u","t","h","e","n","t","i","c","a","t","i","o","n">>>>,
     <<<<"b","c","r","y","p","t">>, <<"P","a","s","s","w","o","r","d"," ","E","n","c","r","y","p","t","i","o","n">>>>,
     <<<<"m","u","l","t","e","r">>, <<"F","i","l","e"," ","U","p","l","o","a","d">>>>,
     <<<<"n","o","d","e","m","a","i","l","e","r">>, <<"E","m","a","i","l">>>>,
     <<<<"c","o","r","s">>, <<"C","O","R","S">>>>,
     <<<<"b","o","d","y","-","p","a","r","s","e","r">>, <<"B","o","d","y"," ","P","a","r","s","e","r">>>>,
     <<<<"a","x","i","o","s">>, <<"H","T","T","P"," ","C","l","i","e","n","t">>>>,
     <<<<"l","o","d","a","s","h">>, <<"U","t","i","l","i","t","i","e","s">>>>,
     <<<<"m","o","m","e","n","t">>, <<"D","a","t","e"," ","H","a","n","d","l","i","n","g">>>>,
     <<<<"d","o","t","e","n","v">>, <<"E","n","v","i","r","o","n","m","e","n","t"," ","V","a","r","i","a","b","l","e","s">>>>,
     <<<<"h","e","l","m","e","t">>, <<"S","e","c","u","r","i","t","y">>>>,
     <<<<"m","o","r","g","a","n">>, <<"L","o","g","g","i","n","g">>>> >>

\* the ImportDeclaration visitor on one import: the values of the keys the
\* source includes that `acc` does not hold yet
RECURSIVE FrameworksOfImport(_, _, _)
FrameworksOfImport(acc, source, k) ==
  IF k > Len(JsFrameworks) THEN acc
  ELSE FrameworksOfImport(
         IF Includes(source, JsFrameworks[k][1])
            /\ ~\E j \in 1..Len(acc) : acc[j] = JsFrameworks[k][2]
         THEN Append(acc, JsFrameworks[k][2]) ELSE acc,
         source, k + 1)

RECURSIVE FrameworksOf(_, _)
FrameworksOf(acc, imports) ==
  IF imports = <<>> THEN acc
  ELSE FrameworksOf(FrameworksOfImport(acc, Head(imports), 1), Tail(imports))

\* an analyzeJavaScriptCode without its catch block (C12 is checked against it)
analyzeJavaScriptCodeUncaught(code, filename) ==
  IF code.parse /\ code.walk
  THEN [filename |-> filename, type |-> "javascript",
        frameworks |-> FrameworksOf(<<>>, code.imports),
        features |-> <<>>, businessLogic |-> <<>>,
        codeSnippets |-> extractCodeSnippets(code.lines, filename, DefaultMaxLines)]
  ELSE Thrown

analyzeJavaScriptCode(code, filename) ==
  IF code.parse /\ code.walk
  THEN [filename |-> filename, type |-> "javascript",
        frameworks |-> FrameworksOf(<<>>, code.imports),
        features |-> <<>>, businessLogic |-> <<>>,
        codeSnippets |-> extractCodeSnippets(code.lines, filename, DefaultMaxLines)]
  ELSE analyzeCodeWithRegex(code, filename)

(***************************************************************************)
(* generateSemanticAnalysis.  An analysis is a record; a field the         *)
(* analyzer does not produce is absent from it.                            *)
(***************************************************************************)
\* the texts of generateSemanticAnalysis
StrFunction == <<"F","u","n","c","t","i","o","n",":"," ">>
StrClass == <<"C","l","a","s","s",":"," ">>
StrWithMethods == <<" ","w","i","t","h"," ","m","e","t","h","o","d","s",":"," ">>
StrNodeJs == <<"N","o","d","e",".","j","s">>
StrExpress == <<"E","x","p","r","e","s","s",".","j","s">>
StrDjango == <<"D","j","a","n","g","o">>
StrFlask == <<"F","l","a","s","k">>
StrReact == <<"R","e","a","c","t">>
StrTensorFlow == <<"T","e","n","s","o","r","F","l","o","w">>
StrPyTorch == <<"P","y","T","o","r","c","h">>
StrApi == <<"A","P","I">>
StrDataAnalysis == <<"D","a","t","a"," ","A","n","a","l","y","s","i","s">>

\* if (analysis.<field>): the field, or nothing for an analysis without it
FieldOf(analysis, field) ==
  IF field \in DOMAIN analysis THEN analysis[field] ELSE <<>>

\* Set.prototype.add, the set kept in insertion order
RECURSIVE AddAll(_, _)
AddAll(acc, seq) ==
  IF seq = <<>> THEN acc
  ELSE AddAll(IF \E j \in 1..Len(acc) : acc[j] = Head(seq) THEN acc
              ELSE Append(acc, Head(seq)),
              Tail(seq))

\* Array.prototype.join(', ')
RECURSIVE Join(_)
Join(texts) ==
  IF texts = <<>> THEN <<>>
  ELSE IF Len(texts) = 1 THEN texts[1]
  ELSE texts[1] \o <<",", " ">> \o Join(Tail(texts))

\* `Function: ${func.name}(${func.parameters?.join(', ') || ''})`
FunctionLogic(func) ==
  StrFunction \o func.name \o <<"(">> \o Join(FieldOf(func, "parameters")) \o <<")">>

\* `Class: ${cls.name}${cls.methods ? ` with methods: ${...}` : ''}`
ClassLogic(cls) ==
  StrClass \o cls.name
  \o (IF "methods" \in DOMAIN cls
      THEN StrWithMethods \o Join(cls.methods) ELSE <<>>)

\* an allFrameworks that also records a runtime no analysis names
AllFrameworksWithRuntime(acc, analysis) ==
  AddAll(AddAll(acc, FieldOf(analysis, "frameworks")), <<StrNodeJs>>)

\* analysis.frameworks.forEach(f => allFrameworks.add(f))
AllFrameworks(acc, analysis) == AddAll(acc, FieldOf(analysis, "frameworks"))

\* analysis.features.forEach(f => allFeatures.add(f))
AllFeatures(acc, analysis) == AddAll(acc, FieldOf(analysis, "features"))

\* the three pushes to allBusinessLogic
AllBusinessLogic(acc, analysis) ==
  LET functions == FieldOf(analysis, "functions")
      classes == FieldOf(analysis, "classes")
  IN  acc \o FieldOf(analysis, "businessLogic")
          \o [k \in 1..Len(functions) |-> FunctionLogic(functions[k])]
          \o [k \in 1..Len(classes) |-> ClassLogic(classes[k])]

\* codeAnalysis.forEach(...)
RECURSIVE Accumulate(_, _)
Accumulate(acc, codeAnalysis) ==
  IF codeAnalysis = <<>> THEN acc
  ELSE Accumulate(
         [allFrameworks |-> AllFrameworks(acc.allFrameworks, Head(codeAnalysis)),
          allFeatures |-> AllFeatures(acc.allFeatures, Head(codeAnalysis)),
          allApis |-> acc.allApis \o FieldOf(Head(codeAnalysis), "apis"),
          allBusinessLogic |-> AllBusinessLogic(acc.allBusinessLogic, Head(codeAnalysis))],
         Tail(codeAnalysis))

Has(list, x) == \E k \in 1..Len(list) : list[k] = x

\* the chain of lines 322-327 with its first two tests exchanged
projectPurposeServerFirst(technicalStack, allBusinessLogic) ==
  IF Has(technicalStack, StrExpress) \/ Has(technicalStack, StrDjango)
     \/ Has(technicalStack, StrFlask) THEN "Backend API Server"
  ELSE IF Has(technicalStack, StrReact) THEN "Frontend Web Application"
  ELSE IF Has(technicalStack, StrTensorFlow) \/ Has(technicalStack, StrPyTorch)
  THEN "Machine Learning Application"
  ELSE IF \E k \in 1..Len(allBusinessLogic) : Includes(allBusinessLogic[k], StrApi)
  THEN "API Service"
  ELSE IF Has(technicalStack, StrDataAnalysis) THEN "Data Analysis Tool"
  ELSE "Software Application"

\* lines 322-327
projectPurpose(technicalStack, allBusinessLogic) ==
  IF Has(technicalStack, StrReact) THEN "Frontend Web Application"
  ELSE IF Has(technicalStack, StrExpress) \/ Has(technicalStack, StrDjango)
          \/ Has(technicalStack, StrFlask) THEN "Backend API Server"
  ELSE IF Has(technicalStack, StrTensorFlow) \/ Has(technicalStack, StrPyTorch)
  THEN "Machine Learning Application"
  ELSE IF \E k \in 1..Len(allBusinessLogic) : Includes(allBusinessLogic[k], StrApi)
  THEN "API Service"
  ELSE IF Has(technicalStack, StrDataAnalysis) THEN "Data Analysis Tool"
  ELSE "Software Application"

generateSemanticAnalysis(codeAnalysis) ==
  LET all == Accumulate([allFrameworks |-> <<>>, allFeatures |-> <<>>,
                         allApis |-> <<>>, allBusinessLogic |-> <<>>], codeAnalysis)
  IN  [projectPurpose |-> projectPurpose(all.allFrameworks, all.allBusinessLogic),
       mainFeatures |-> all.allFeatures,
       technicalStack |-> all.allFrameworks,
       apiEndpoints |-> all.allApis,
       businessLogic |-> all.allBusinessLogic,
       architecture |-> <<>>, keyFunctionality |-> <<>>]

(***************************************************************************)
(* The end of generateIntelligentReadme (line 466): replace of the opening  *)
(* pattern, replace of the closing pattern, trim.  The character U+0060    *)
(* is the element "backtick" of a text.                                    *)
(***************************************************************************)
Backtick == "backtick"
StrFence == <<Backtick, Backtick, Backtick>>
StrMarkdown == <<"m","a","r","k","d","o","w","n">>

\* the flag i, for the letters of the word markdown
LowerCase(c) ==
  CASE c = "M" -> "m" [] c = "A" -> "a" [] c = "R" -> "r" [] c = "K" -> "k"
    [] c = "D" -> "d" [] c = "O" -> "o" [] c = "W" -> "w" [] c = "N" -> "n"
    [] OTHER -> c

Drop(s, n) == SubSeq(s, n + 1, Len(s))

\* \s*: s without the white space it starts with
RECURSIVE DropSpace(_)
DropSpace(s) ==
  IF s # <<>> /\ IsSpace(Head(s)) THEN DropSpace(Tail(s)) ELSE s

\* the opening pattern: at the start, a fence, the word markdown or not,
\* and white space
StripOpeningFence(s) ==
  IF ~StartsWith(s, StrFence) THEN s
  ELSE LET rest == Drop(s, Len(StrFence))
           lower == [k \in 1..Len(rest) |-> LowerCase(rest[k])]
       IN  DropSpace(IF StartsWith(lower, StrMarkdown)
                     THEN Drop(rest, Len(StrMarkdown)) ELSE rest)

\* the closing pattern, a fence and $: without the flag m, $ is the end of
\* the text only
StripClosingFence(s) ==
  IF EndsWith(s, StrFence) THEN SubSeq(s, 1, Len(s) - Len(StrFence)) ELSE s

StripFences(readme) == Trim(StripClosingFence(StripOpeningFence(readme)))

\* the WebSocket variant (line 2268): its pattern is ^, six of U+0060 and $
StripFencesWebSocket(readme) ==
  Trim(IF readme = StrFence \o StrFence THEN <<>> ELSE readme)

(***************************************************************************)
(* fetchRepoFiles: the decisions of the loop body.                         *)
(***************************************************************************)
ExcludedNames ==
  {<<"n","o","d","e","_","m","o","d","u","l","e","s">>, <<"v","e","n","d","o","r">>, <<"d","i","s","t">>, <<"b","u","i","l","d">>, <<"_","_","p","y","c","a","c","h","e","_","_">>, <<".","g","i","t">>}

\* if (depth > 3) return []
TooDeep(depth) == depth > DepthBound

\* a loop over the whole listing (C30 is checked against it)
TotalItemsUncapped(length) == length

\* const totalItems = Math.min(items.length, 150)
TotalItems(length) == Min(length, ItemCap)

\* item.type === "file" && item.size < 2 * 1024 * 1024
KeepsFile(item) == item.type = "file" /\ item.size < MaxFileSize

\* the recursion test without its name tests (C5 is checked against it)
ShouldRecurseAnyName(item, depth) == item.type = "dir" /\ depth < DepthBound

\* item.type === "dir" && depth < 3 && !item.name.startsWith('.') && !excluded
ShouldRecurse(item, depth) ==
  /\ item.type = "dir"
  /\ depth < DepthBound
  /\ ~StartsWith(item.name, <<".">>)
  /\ item.name \notin ExcludedNames

\* a catch block that rethrows at every depth (C6 is checked against it)
RethrowsAlways(depth) == TRUE

\* catch (error) { if (depth === 0) throw error; return []; }
Rethrows(depth) == depth = 0

\* Math.round((i / totalItems) * 20)
FetchProgress(i, totalItems) == RoundDiv(i * 20, totalItems)

\* 25 + Math.round((processedFiles / importantFiles.length) * 35)
AnalyzeProgress(processed, n) == 25 + RoundDiv(processed * 35, n)

\* a handler without the test of line 706 (C10 is checked against it)
NoFilesNever(fs) == FALSE

\* if (files.length === 0) throw ...
NoFiles(fs) == Len(fs) = 0

(***************************************************************************)
(* The repository host.  A listing is read front to back and every entry  *)
(* once, so an entry is drawn when the loop reaches it.                    *)
(***************************************************************************)
NmAppJs == <<"a","p","p",".","j","s">>
NmNotesTxt == <<"n","o","t","e","s",".","t","x","t">>
NmBigBin == <<"b","i","g",".","b","i","n">>
NmSrc == <<"s","r","c">>
NmNodeModules == <<"n","o","d","e","_","m","o","d","u","l","e","s">>
NmDotGithub == <<".","g","i","t","h","u","b">>

HostEntries ==
  { [type |-> "file", name |-> NmAppJs,    size |-> 100,         download_url |-> TRUE],
    [type |-> "file", name |-> NmNotesTxt, size |-> 1500000,     download_url |-> TRUE],
    [type |-> "file", name |-> NmBigBin,   size |-> MaxFileSize, download_url |-> TRUE],
    [type |-> "dir",  name |-> NmSrc,         size |-> 0, download_url |-> FALSE],
    [type |-> "dir",  name |-> NmNodeModules, size |-> 0, download_url |-> FALSE],
    [type |-> "dir",  name |-> NmDotGithub,   size |-> 0, download_url |-> FALSE] }

\* statuses of the GitHub API
HostStatuses == {200, 401, 403, 404, 429, 500}

\* statuses of the generative API
GeminiStatuses == {200, 429, 500}

\* request bodies: repoUrl
UrlInputs ==
  { <<>>,
    <<" ","h","t","t","p","s",":","/","/","g","i","t","h","u","b",".","c","o","m","/","o","/","r",".","g","i","t"," ">>,
    <<"g","i","t","h","u","b",".","c","o","m","/","o">>,
    <<"o","/","r">> }

(***************************************************************************)
(* State.                                                                  *)
(***************************************************************************)
VARIABLES
  pc,                \* position of the /generate-readme handler
  repoUrl,           \* req.body.repoUrl
  sessionId,         \* req.body.sessionId, the id the client generated
  activeConnections, \* the registry: sessionId -> progress connection
  conn,              \* every progress connection: its state and sessionId
  log,               \* every event written to a progress connection, in order
  stopped,           \* the client has called stopGeneration
  stack,             \* the active calls of fetchRepoFiles, the root first
  hostServed,        \* entries the host has served in this crawl
  files,             \* the result of the crawl
  importantFiles,    \* performDeepCodeAnalysis: importantFiles
  processedFiles,    \* performDeepCodeAnalysis: processedFiles
  codeAnalysis,      \* performDeepCodeAnalysis: codeAnalysis
  calls,             \* requests issued to the external services
  resp,              \* the response of the POST
  delivered,         \* the client's fetch resolved with the README
  timer,             \* the cleanup timer of the success path is pending
  connAtStart,       \* history: the connection registered when the POST arrived
  servedFiles,       \* history: every file entry the crawl has read
  dirsMet,           \* history: names of the directory entries the crawl has read
  rootStatus,        \* history: status of the root listing (0: none yet)
  listDepths,        \* history: depths of the listing requests issued
  failedDepths,      \* history: depths of the listing requests that failed
  geminiResult,      \* history: how the generative API answered
  textFiles,         \* history: positions in importantFiles of the files whose
                     \* content fetch gave text
  unitCall           \* a direct call of one function: its name, argument, result

vars == <<pc, repoUrl, sessionId, activeConnections, conn, log,
          stopped, stack, hostServed, files, importantFiles, processedFiles,
          codeAnalysis, calls, resp, delivered, timer, connAtStart,
          servedFiles, dirsMet, rootStatus, listDepths, failedDepths,
          geminiResult, textFiles, unitCall>>

crawlVars == <<stack, hostServed, servedFiles, dirsMet, rootStatus, listDepths,
               failedDepths>>
analysisVars == <<files, importantFiles, processedFiles, codeAnalysis>>
requestVars == <<repoUrl, sessionId, connAtStart>>

\* no function has been called directly
NoCall == [fn |-> "none", arg |-> <<>>, res |-> <<>>]

NoResp == [status |-> 0, error |-> <<>>, readme |-> FALSE]

\* a run of a client that sends the session id sid (NoSession: none)
InitOver(sid, cs) ==
  /\ pc = "idle"
  /\ repoUrl = <<>>
  /\ sessionId = sid
  /\ connAtStart = NoConn
  /\ activeConnections = [s \in SessionIds |-> NoConn]
  /\ conn = [c \in cs |-> [state |-> "unused", sid |-> NoSession]]
  /\ log = <<>>
  /\ stopped = FALSE
  /\ stack = <<>>
  /\ hostServed = 0
  /\ files = <<>>
  /\ importantFiles = <<>>
  /\ processedFiles = 0
  /\ codeAnalysis = <<>>
  /\ calls = [meta |-> 0, list |-> 0, content |-> 0, gemini |-> 0]
  /\ resp = NoResp
  /\ delivered = FALSE
  /\ timer = FALSE
  /\ servedFiles = <<>>
  /\ dirsMet = {}
  /\ rootStatus = 0
  /\ listDepths = {}
  /\ failedDepths = {}
  /\ geminiResult = "none"
  /\ textFiles = <<>>
  /\ unitCall = NoCall

InitWith(sid) == InitOver(sid, Conns)

\* the browser client (App.jsx): generateSessionId, then the EventSource and
\* the POST, both with that id
Init == \E sid \in SessionIds : InitWith(sid)

\* a client that sends no sessionId and opens no progress stream
InitPlain == InitWith(NoSession)

(***************************************************************************)
(* The client (App.jsx).  stopGeneration aborts the POST and closes the   *)
(* EventSource: from then on the EventSource hands no message to          *)
(* onmessage and the fetch of the POST rejects instead of resolving.       *)
(***************************************************************************)
\* abortController.abort() in stopGeneration, signal: controller.signal
FetchResolves == ~stopped

Event(c, step, progress) == [conn |-> c, step |-> step, progress |-> progress]

\* activeConnections.has(sessionId), with the guard `sessionId &&`
HasConnection(sid) == sid # NoSession /\ activeConnections[sid] # NoConn

\* progressCallback(data) of the run with sessionId sid, applied to log lg
progressCallback(lg, sid, step, progress) ==
  IF HasConnection(sid)
  THEN Append(lg, Event(activeConnections[sid], step, progress))
  ELSE lg

\* the body of the error response
ErrorBody(msg) == IF msg = StrAuthRequired THEN StrAuthError ELSE msg

(***************************************************************************)
(* The catch block of the handler: the error event, connection.end(),     *)
(* activeConnections.delete, and the error response.                       *)
(***************************************************************************)
Fail(lg, msg) ==
  /\ pc' = "done"
  /\ IF HasConnection(sessionId)
     THEN /\ log' = Append(lg, Event(activeConnections[sessionId], "error", 0))
          /\ conn' = [conn EXCEPT ![activeConnections[sessionId]].state = "ended"]
          /\ activeConnections' = [activeConnections EXCEPT ![sessionId] = NoConn]
     ELSE /\ log' = lg
          /\ UNCHANGED <<conn, activeConnections>>
  /\ resp' = [status |-> ErrorStatus(msg), error |-> ErrorBody(msg), readme |-> FALSE]
  /\ UNCHANGED <<delivered, timer, stopped>>

(***************************************************************************)
(* GET /progress/:sessionId                                                *)
(***************************************************************************)
\* activeConnections.set(sessionId, res)
RegistryAfterConnect(reg, sid, c) == [reg EXCEPT ![sid] = c]

\* a close handler that leaves the registry alone (C4 is checked against it)
RegistryKeptOnClose(reg, sid) == reg

\* req.on('close', () => { activeConnections.delete(sessionId); })
RegistryAfterClose(reg, sid) == [reg EXCEPT ![sid] = NoConn]

Connect(c) ==
  /\ conn[c].state = "unused"
  /\ \A d \in Conns : d < c => conn[d].state # "unused"
  /\ \E sid \in SessionIds :
       /\ activeConnections' = RegistryAfterConnect(activeConnections, sid, c)
       /\ conn' = [conn EXCEPT ![c] = [state |-> "open", sid |-> sid]]
  /\ log' = Append(log, Event(c, "connected", 0))
  /\ UNCHANGED <<unitCall, pc, geminiResult, textFiles, requestVars, stopped, crawlVars, analysisVars, calls, resp,
                 delivered, timer>>

\* req.on('close', () => activeConnections.delete(sessionId))
CloseEvent(c) ==
  /\ conn[c].state \in {"open", "ended"}
  /\ conn' = [conn EXCEPT ![c].state = "closed"]
  /\ activeConnections' = RegistryAfterClose(activeConnections, conn[c].sid)
  /\ UNCHANGED <<unitCall, pc, geminiResult, textFiles, requestVars, log, stopped, crawlVars, analysisVars, calls,
                 resp, delivered, timer>>

\* stopGeneration (App.jsx)
StopGeneration ==
  /\ ~stopped
  /\ stopped' = TRUE
  /\ UNCHANGED <<unitCall, pc, geminiResult, textFiles, requestVars, activeConnections, conn, log, crawlVars,
                 analysisVars, calls, resp, delivered, timer>>

(***************************************************************************)
(* POST /generate-readme                                                   *)
(***************************************************************************)
\* a handler without the early return of line 668 (C9 is checked against it)
EarlyReturnUnparsed(url) == IF url = <<>> THEN "missing" ELSE "ok"

\* lines 665-668: the two early returns
EarlyReturn(url) ==
  IF url = <<>> THEN "missing"
  ELSE IF parseGitHubUrl(url) = Null THEN "invalid"
  ELSE "ok"

Top(stk) == stk[Len(stk)]
Pop(stk) == SubSeq(stk, 1, Len(stk) - 1)

Frame(path, depth) ==
  [path |-> path, depth |-> depth, state |-> "entry", listed |-> 0,
   total |-> 0, i |-> 0, files |-> <<>>]

\* the request arrives: the early returns, the first progress event and the
\* first request of checkRepoAccess
PostArrive ==
  /\ pc = "idle"
  /\ connAtStart' = IF HasConnection(sessionId)
                    THEN activeConnections[sessionId] ELSE NoConn
  /\ \E url \in UrlInputs :
       /\ repoUrl' = url
       /\ IF EarlyReturn(url) = "missing"
          THEN /\ pc' = "done"
               /\ resp' = [status |-> 400, error |-> StrUrlRequired, readme |-> FALSE]
               /\ UNCHANGED <<log, calls>>
          ELSE IF EarlyReturn(url) = "invalid"
          THEN /\ pc' = "done"
               /\ resp' = [status |-> 400, error |-> StrInvalidUrl, readme |-> FALSE]
               /\ UNCHANGED <<log, calls>>
          ELSE /\ pc' = "access"
               /\ log' = progressCallback(log, sessionId, "initializing", 5)
               /\ calls' = [calls EXCEPT !.meta = @ + 1]
               /\ UNCHANGED resp
  /\ UNCHANGED <<unitCall, sessionId, geminiResult, textFiles, activeConnections, conn, stopped, crawlVars,
                 analysisVars, delivered, timer>>

\* a second request of checkRepoAccess is made: after a 404, with a token
SecondRequest(s1, userTok) == makeRequestError(s1) = StrRepoNotFound /\ userTok

\* checkRepoAccess returns (userTok: req.session.github?.accessToken is set;
\* s1, s2: the statuses of its requests); then the 'fetching' event and the
\* call of fetchRepoFiles, or the throw
AccessResponse ==
  /\ pc = "access"
  /\ \E userTok \in BOOLEAN, s1 \in HostStatuses, s2 \in HostStatuses :
       /\ ~SecondRequest(s1, userTok) => s2 = 200
       /\ calls' = IF SecondRequest(s1, userTok)
                   THEN [calls EXCEPT !.meta = @ + 1] ELSE calls
       /\ IF checkRepoAccess(s1, s2, userTok).accessible
          THEN /\ pc' = "crawl"
               /\ log' = progressCallback(log, sessionId, "fetching", 10)
               /\ stack' = <<Frame(<<>>, 0)>>
               /\ UNCHANGED <<activeConnections, conn, resp, delivered, timer,
                              stopped>>
          ELSE /\ Fail(log, AccessError(checkRepoAccess(s1, s2, userTok), userTok))
               /\ UNCHANGED stack
  /\ UNCHANGED <<unitCall, geminiResult, textFiles, requestVars, hostServed, servedFiles, dirsMet,
                 rootStatus, listDepths, failedDepths, analysisVars>>

\* a call of fetchRepoFiles returns `result` to the frames stk below it: to
\* the loop of its caller, or (the root call) to the handler, which goes on
\* to the start of performDeepCodeAnalysis
CrawlReturns(stk, result) ==
  IF stk = <<>>
  THEN /\ stack' = <<>>
       /\ files' = result
       /\ IF NoFiles(result)
          THEN /\ Fail(log, StrNoFiles)
               /\ UNCHANGED <<importantFiles, processedFiles, codeAnalysis>>
          ELSE /\ pc' = "analyze"
               /\ importantFiles' = selectImportantFiles(result)
               /\ processedFiles' = 0
               /\ codeAnalysis' = <<>>
               /\ log' = progressCallback(
                           progressCallback(log, sessionId, "analyzing", 25),
                           sessionId, "analyzing", 25)
               /\ UNCHANGED <<activeConnections, conn, resp, delivered, timer,
                              stopped>>
  ELSE /\ stack' = [stk EXCEPT ![Len(stk)] =
                      [@ EXCEPT !.files = @ \o result, !.i = @ + 1]]
       /\ UNCHANGED <<pc, log, activeConnections, conn, resp, delivered, timer,
                      stopped, analysisVars>>

\* entries the host serves in the crawl of the run under way
Budget == IF sessionId = NoSession THEN MaxEntries ELSE MaxSseEntries

\* items.length of the listing a request of frame f may be answered with: a
\* short listing within the budget, or at the root of a run without progress
\* stream a listing of one entry more than the loop reads
ListingLengths(f) ==
  (0..Min(MaxItems, Budget - hostServed))
    \cup (IF sessionId = NoSession /\ f.depth = 0 THEN {ItemCap + 1} ELSE {})

\* the entries of a listing of frame f: a long listing repeats one
\* directory of an excluded name
EntriesOf(f) ==
  IF f.listed > MaxItems
  THEN {e \in HostEntries : e.name = NmNodeModules}
  ELSE HostEntries

\* fetchRepoFiles is entered: the depth test, then the listing request
EnterDirectory ==
  /\ pc = "crawl"
  /\ stack # <<>>
  /\ Top(stack).state = "entry"
  /\ IF TooDeep(Top(stack).depth)
     THEN /\ CrawlReturns(Pop(stack), <<>>)
          /\ UNCHANGED <<calls, listDepths>>
     ELSE /\ stack' = [stack EXCEPT ![Len(stack)].state = "listing"]
          /\ calls' = [calls EXCEPT !.list = @ + 1]
          /\ listDepths' = listDepths \cup {Top(stack).depth}
          /\ UNCHANGED <<pc, log, activeConnections, conn, resp, delivered,
                         timer, stopped, analysisVars>>
  /\ UNCHANGED <<unitCall, geminiResult, textFiles, requestVars, hostServed, servedFiles, dirsMet,
                 rootStatus, failedDepths>>

\* the listing request answers: an error status, a body that is no array,
\* or an array of n entries
ListResponse ==
  /\ pc = "crawl"
  /\ stack # <<>>
  /\ Top(stack).state = "listing"
  /\ \E st \in HostStatuses, isArray \in BOOLEAN,
        n \in ListingLengths(Top(stack)) :
       /\ rootStatus' = IF Top(stack).depth = 0 THEN st ELSE rootStatus
       /\ failedDepths' = IF st # 200 \/ ~isArray
                          THEN failedDepths \cup {Top(stack).depth}
                          ELSE failedDepths
       /\ IF st # 200
          THEN /\ n = 0 /\ isArray
               /\ IF Rethrows(Top(stack).depth)
                  THEN /\ Fail(log, makeRequestError(st))
                       /\ stack' = <<>>
                       /\ UNCHANGED analysisVars
                  ELSE CrawlReturns(Pop(stack), <<>>)
               /\ UNCHANGED hostServed
          ELSE IF ~isArray
          THEN /\ n = 0
               /\ CrawlReturns(Pop(stack), <<>>)
               /\ UNCHANGED hostServed
          ELSE /\ stack' = [stack EXCEPT ![Len(stack)] =
                              [@ EXCEPT !.state = "loop", !.listed = n,
                                        !.total = TotalItems(n), !.i = 0]]
               /\ hostServed' = hostServed + n
               /\ UNCHANGED <<pc, log, activeConnections, conn, resp, delivered,
                              timer, stopped, analysisVars>>
  /\ UNCHANGED <<unitCall, geminiResult, textFiles, requestVars, calls, servedFiles, dirsMet, listDepths>>

\* one iteration of the loop over the listing
ProcessItem ==
  /\ pc = "crawl"
  /\ stack # <<>>
  /\ Top(stack).state = "loop"
  /\ Top(stack).i < Top(stack).total
  /\ \E item \in EntriesOf(Top(stack)) :
       LET f == Top(stack)
           itemPath == f.path \o <<item.name>>
       IN  /\ log' = IF f.depth = 0
                     THEN progressCallback(log, sessionId, "fetching",
                                           FetchProgress(f.i, f.total))
                     ELSE log
           /\ servedFiles' = IF item.type = "file"
                             THEN Append(servedFiles,
                                         [path |-> itemPath, size |-> item.size])
                             ELSE servedFiles
           /\ dirsMet' = IF item.type = "dir"
                         THEN dirsMet \cup {item.name} ELSE dirsMet
           /\ stack' =
                IF KeepsFile(item)
                THEN [stack EXCEPT ![Len(stack)] =
                        [@ EXCEPT !.files = Append(@, [name |-> item.name,
                                                       path |-> itemPath,
                                                       size |-> item.size,
                                                       download_url |-> item.download_url]),
                                  !.i = @ + 1]]
                ELSE IF ShouldRecurse(item, f.depth)
                THEN Append(stack, Frame(itemPath, f.depth + 1))
                ELSE [stack EXCEPT ![Len(stack)].i = @ + 1]
  /\ UNCHANGED <<unitCall, pc, geminiResult, textFiles, requestVars, activeConnections, conn,
                 stopped, hostServed, rootStatus, listDepths, failedDepths,
                 analysisVars, calls, resp, delivered, timer>>

\* the loop is over: return files
ReturnFrame ==
  /\ pc = "crawl"
  /\ stack # <<>>
  /\ Top(stack).state = "loop"
  /\ Top(stack).i = Top(stack).total
  /\ CrawlReturns(Pop(stack), Top(stack).files)
  /\ UNCHANGED <<unitCall, geminiResult, textFiles, requestVars, hostServed, servedFiles, dirsMet,
                 rootStatus, listDepths, failedDepths, calls>>

\* a loop body that keeps an analysis whatever the fetch gave (C11 is checked
\* against it)
AfterFetchAlways(ca, file, content) ==
  Append(ca, [filename |-> file.name, analyzer |-> AnalyzerFor(file.name)])

\* if (content) { ... codeAnalysis.push(analysis); }  (content: "null" for
\* null, "empty" for the empty string, "text" for any other text)
AfterFetch(ca, file, content) ==
  IF content = "text"
  THEN Append(ca, [filename |-> file.name, analyzer |-> AnalyzerFor(file.name)])
  ELSE ca

\* one iteration of the loop of performDeepCodeAnalysis: the progress event,
\* the content fetch and the analysis of the file
AnalyzeFile ==
  /\ pc = "analyze"
  /\ processedFiles < Len(importantFiles)
  /\ LET file == importantFiles[processedFiles + 1]
     IN  /\ log' = progressCallback(log, sessionId, "analyzing",
                     AnalyzeProgress(processedFiles, Len(importantFiles)))
         /\ IF ShouldFetch(file)
            THEN \E content \in {"null", "empty", "text"} :
                   /\ calls' = [calls EXCEPT !.content = @ + 1]
                   /\ codeAnalysis' = AfterFetch(codeAnalysis, file, content)
                   /\ textFiles' = IF content = "text"
                                   THEN Append(textFiles, processedFiles + 1)
                                   ELSE textFiles
            ELSE UNCHANGED <<calls, codeAnalysis, textFiles>>
  /\ processedFiles' = processedFiles + 1
  /\ UNCHANGED <<unitCall, pc, geminiResult, requestVars, activeConnections, conn, stopped,
                 crawlVars, files, importantFiles, resp, delivered, timer>>

\* performDeepCodeAnalysis returns: the events 60 and 70 of the handler, then
\* generateIntelligentReadme up to its request to the generative API
FinishAnalysis ==
  /\ pc = "analyze"
  /\ processedFiles = Len(importantFiles)
  /\ LET lg == progressCallback(
                 progressCallback(log, sessionId, "analyzing", 60),
                 sessionId, "generating", 70)
     IN  \E hasKey \in BOOLEAN :
           IF ~hasKey
           THEN /\ Fail(lg, StrNoKey)
                /\ UNCHANGED calls
           ELSE /\ pc' = "gemini"
                /\ log' = progressCallback(
                            progressCallback(lg, sessionId, "generating", 70),
                            sessionId, "generating", 85)
                /\ calls' = [calls EXCEPT !.gemini = @ + 1]
                /\ UNCHANGED <<activeConnections, conn, resp, delivered, timer,
                               stopped>>
  /\ UNCHANGED <<unitCall, geminiResult, textFiles, requestVars, crawlVars, analysisVars>>

\* the generative API answers: the rest of generateIntelligentReadme, then the
\* 'complete' event, the cleanup timer and the response
GeminiResponse ==
  /\ pc = "gemini"
  /\ \E st \in GeminiStatuses, hasText \in BOOLEAN :
       IF st # 200
       THEN /\ hasText
            /\ geminiResult' = "error"
            /\ Fail(log, StrGeminiError \o StatusText(st))
       ELSE IF ~hasText
       THEN /\ geminiResult' = "empty"
            /\ Fail(log, StrNoContent)
       ELSE /\ geminiResult' = "ok"
            /\ pc' = "done"
            /\ log' = progressCallback(log, sessionId, "complete", 100)
            /\ timer' = TRUE
            /\ resp' = [status |-> 200, error |-> <<>>, readme |-> TRUE]
            /\ delivered' = FetchResolves
            /\ UNCHANGED <<activeConnections, conn, stopped>>
  /\ UNCHANGED <<unitCall, textFiles, requestVars, crawlVars, analysisVars, calls>>

\* setTimeout(() => { if (sessionId && activeConnections.has(sessionId)) ... }, 1000)
TimerFire ==
  /\ timer
  /\ timer' = FALSE
  /\ IF HasConnection(sessionId)
     THEN /\ conn' = [conn EXCEPT ![activeConnections[sessionId]].state = "ended"]
          /\ activeConnections' = [activeConnections EXCEPT ![sessionId] = NoConn]
     ELSE UNCHANGED <<conn, activeConnections>>
  /\ UNCHANGED <<unitCall, pc, geminiResult, textFiles, requestVars, log, stopped, crawlVars, analysisVars, calls,
                 resp, delivered>>

Handler ==
  \/ PostArrive
  \/ AccessResponse
  \/ EnterDirectory
  \/ ListResponse
  \/ ProcessItem
  \/ ReturnFrame
  \/ AnalyzeFile
  \/ FinishAnalysis
  \/ GeminiResponse

Next ==
  \/ Handler
  \/ TimerFire
  \/ \E c \in Conns : Connect(c)
  \/ \E c \in Conns : CloseEvent(c)
  \/ StopGeneration

Spec == Init /\ [][Next]_vars

\* the run of a client without progress stream
NextPlain == Handler \/ TimerFire

PlainSpec == InitPlain /\ [][NextPlain]_vars

\* every await of the handler is answered and the timer fires; the client is
\* not obliged to connect, to close or to stop
FairSpec == Spec /\ WF_vars(Handler) /\ WF_vars(TimerFire)

(***************************************************************************)
(* A client that connects again: the EventSource of the browser reconnects *)
(* with the same sessionId, so one connection more than in Spec.           *)
(***************************************************************************)
ReconnectConns == 1..(MaxConns + 1)

InitReconnect == \E sid \in SessionIds : InitOver(sid, ReconnectConns)

NextReconnect ==
  \/ Handler
  \/ TimerFire
  \/ \E c \in ReconnectConns : Connect(c)
  \/ \E c \in ReconnectConns : CloseEvent(c)
  \/ StopGeneration

ReconnectSpec == InitReconnect /\ [][NextReconnect]_vars

(***************************************************************************)
(* Direct calls of the functions of the pipeline, one call per behaviour.  *)
(***************************************************************************)
programVars == <<pc, repoUrl, sessionId, activeConnections, conn, log, stopped,
                 stack, hostServed, files, importantFiles, processedFiles,
                 codeAnalysis, calls, resp, delivered, timer, connAtStart,
                 servedFiles, dirsMet, rootStatus, listDepths, failedDepths,
                 geminiResult, textFiles>>

Call(fn, arg, res) ==
  /\ unitCall.fn = "none"
  /\ unitCall' = [fn |-> fn, arg |-> arg, res |-> res]
  /\ UNCHANGED programVars

NmAppJsx == <<"A","p","p",".","j","s","x">>

\* source texts handed to the JavaScript analyzer
SourceCounts ==
  {[k \in 1..Len(PatternNames) |-> IF k = 1 THEN a ELSE IF k = 3 THEN b ELSE 0] :
     a \in {0, 2, 3}, b \in {0, 2, 12}}

SourceImports == {<<>>, <<<<"r","e","a","c","t">>>>, <<<<"e","x","p","r","e","s","s">>, <<"r","e","a","c","t","-","d","o","m">>>>}

JsSources ==
  [parse : BOOLEAN, walk : BOOLEAN, imports : SourceImports,
   counts : SourceCounts, lines : {<<"declaration", "other">>}]

CallAnalyzeJavaScriptCode ==
  \E code \in JsSources :
    Call("analyzeJavaScriptCode", [code |-> code, filename |-> NmAppJsx],
         analyzeJavaScriptCode(code, NmAppJsx))

\* references to the repository r of the owner o
ValidRefs ==
  { <<"o","/","r">>,
    <<"o","/","r",".","g","i","t">>,
    <<"o","/","r","/">>,
    <<"g","i","t","h","u","b",".","c","o","m","/","o","/","r">>,
    <<"h","t","t","p","s",":","/","/","g","i","t","h","u","b",".","c","o","m","/","o","/","r",".","g","i","t">>,
    <<"h","t","t","p","s",":","/","/","g","i","t","h","u","b",".","c","o","m","/","o","/","r","/","t","r","e","e","/","m","a","i","n">>,
    <<"h","t","t","p",":","/","/","g","i","t","h","u","b",".","c","o","m","/","o","/","r","/">>,
    <<" ","g","i","t","h","u","b",".","c","o","m","/","o","/","r"," ">> }

\* malformed references: no slash between owner and repository, or white
\* space inside the owner or the repository
MalformedRefs ==
  { <<"o">>,
    <<"o"," ","r","/","x">>,
    <<"o","/","r"," ","x">>,
    <<"g","i","t","h","u","b",".","c","o","m","/","o">>,
    <<"h","t","t","p","s",":","/","/","g","i","t","h","u","b",".","c","o","m","/","o">>,
    <<"g","i","t","h","u","b",".","c","o","m","/","o"," ","p","/","r">>,
    <<"h","t","t","p","s",":","/","/","g","i","t","h","u","b",".","c","o","m","/","o","/","r"," ","p">> }

\* parseGitHubUrl of src/unnamed/part_001
CallParseGitHubUrl ==
  \E url \in ValidRefs \cup MalformedRefs :
    Call("parseGitHubUrl", url, parseGitHubUrl(url))

\* parseGitHubUrl of src/backend/api/server.js
CallParseGitHubUrlPatterns ==
  \E url \in ValidRefs \cup MalformedRefs :
    Call("parseGitHubUrlPatterns", url, parseGitHubUrlPatterns(url))

NmPackageJson == <<"p","a","c","k","a","g","e",".","j","s","o","n">>
NmRoutesJs == <<"r","o","u","t","e","s",".","j","s">>

\* file names of four different priorities
ListedNames == <<NmNotesTxt, NmAppJs, NmPackageJson, NmRoutesJs>>

FileNamed(name) ==
  [name |-> name, path |-> name, size |-> 100, download_url |-> TRUE]

\* the files handed to selectImportantFiles: every short list, and lists
\* around the length of the slice, whose names repeat with a period
FileLists ==
  UNION {[1..n -> {FileNamed(ListedNames[k]) : k \in 1..Len(ListedNames)}] : n \in 0..MaxFiles}
  \cup {[i \in 1..n |-> FileNamed(ListedNames[(i % k) + 1])] :
          n \in (TopN - 1)..(TopN + 2), k \in 1..Len(ListedNames)}

NmUsersJs == <<"u","s","e","r","s",".","j","s">>

\* directories, with and without a keyword of lines 262-265 in their name
Directories == {<<"r","o","u","t","e","s">>, <<"a","p","i">>, <<"m","o","d","e","l","s">>, <<"s","e","r","v","i","c","e","s">>, <<"m","i","d","d","l","e","w","a","r","e">>, <<"l","i","b">>}

FileUnder(dir, name) ==
  [name |-> name, path |-> dir \o <<"/">> \o name, size |-> 100, download_url |-> TRUE]

\* two files of one name in two directories
PathLists ==
  { <<FileUnder(d1, name), FileUnder(d2, name)>> :
      d1 \in Directories, d2 \in Directories, name \in {NmUsersJs, NmNotesTxt} }

\* lists of files of different paths (the position is the directory), the
\* names repeating with a period: short ones and ones around the slice
NumberedLists ==
  { [i \in 1..n |-> FileUnder(NumText(i), ListedNames[(i % k) + 1])] :
      n \in (1..MaxFiles) \cup ((TopN - 1)..(TopN + 2)), k \in 2..Len(ListedNames) }

CallSelectImportantFiles ==
  \E fs \in FileLists \cup PathLists \cup NumberedLists :
    Call("selectImportantFiles", fs, selectImportantFiles(fs))

\* the classes of the lines of the texts below, of three priorities
TextKinds == <<"comment", "declaration", "other">>

\* the short texts handed to extractCodeSnippets
Texts ==
  UNION {[1..n -> {TextKinds[k] : k \in 1..Len(TextKinds)}] : n \in 1..MaxTextLines}

\* a configuration file a line longer than the default maxLines
LongText == [i \in 1..(DefaultMaxLines + 1) |-> TextKinds[(i % Len(TextKinds)) + 1]]

\* texts whose lines are of different classes, two of them of one priority
DistinctTexts ==
  { t \in UNION {[1..n -> {"empty", "comment", "declaration", "call", "other"}] :
                   n \in 2..(MaxTextLines + 1)} :
      \A i, j \in 1..Len(t) : t[i] = t[j] => i = j }

CallExtractCodeSnippets ==
  \E lines \in Texts \cup {LongText} \cup DistinctTexts, filename \in {NmAppJs, NmPackageJson},
     maxLines \in {1, 2, DefaultMaxLines} :
    /\ lines = LongText => (filename = NmPackageJson /\ maxLines = DefaultMaxLines)
    /\ Call("extractCodeSnippets",
            [lines |-> lines, filename |-> filename, maxLines |-> maxLines],
            extractCodeSnippets(lines, filename, maxLines))

StrConfigurationFile == <<"C","o","n","f","i","g","u","r","a","t","i","o","n"," ","f","i","l","e",":"," ">>
NmAppPy == <<"a","p","p",".","p","y">>
ImportReact == <<"r","e","a","c","t">>
ImportExpress == <<"e","x","p","r","e","s","s">>
ImportLodash == <<"l","o","d","a","s","h">>
FnPredict == <<"p","r","e","d","i","c","t">>
ParamX == <<"x">>
ParamY == <<"y">>
ClsNet == <<"N","e","t">>
FnCallApi == <<"c","a","l","l","A","P","I">>

\* a source text that parses: its imports and its pattern counts
Source(imports, apiCount) ==
  [parse |-> TRUE, walk |-> TRUE, imports |-> imports,
   counts |-> [k \in 1..Len(PatternNames) |-> IF k = 3 THEN apiCount ELSE 0],
   lines |-> <<"declaration", "other">>]

\* the lines of a package.json whose dependencies name react
PackageJsonText == <<"other", "other", "other">>

\* the analysis of a configuration file (line 290)
ConfigAnalysis(filename, content) ==
  [filename |-> filename, type |-> "configuration", content |-> content,
   codeSnippets |-> extractCodeSnippets(content, filename, DefaultMaxLines),
   businessLogic |-> <<StrConfigurationFile \o filename>>]

\* an analysis of analyzePythonCode (line 212 and the three loops)
PythonAnalysis(frameworks, functions, classes) ==
  [filename |-> NmAppPy, type |-> "python", imports |-> <<>>,
   functions |-> functions, classes |-> classes, apis |-> <<>>,
   frameworks |-> frameworks, features |-> <<>>,
   businessLogic |-> [k \in 1..Len(classes) |-> StrClass \o classes[k].name],
   codeSnippets |-> <<"declaration">>]

\* the analyses handed to generateSemanticAnalysis
Analyses ==
  { ConfigAnalysis(NmPackageJson, PackageJsonText),
    analyzeJavaScriptCode(Source(<<ImportReact>>, 0), NmAppJsx),
    analyzeJavaScriptCode(Source(<<ImportExpress, ImportReact>>, 0), NmAppJs),
    analyzeJavaScriptCode(Source(<<ImportExpress>>, 0), NmAppJs),
    analyzeJavaScriptCode(Source(<<ImportLodash>>, 0), NmAppJs),
    analyzeCodeWithRegex(Source(<<>>, 12), NmNotesTxt),
    analyzeCodeWithRegex(Source(<<>>, 2), NmNotesTxt),
    PythonAnalysis(<<StrTensorFlow>>, <<[name |-> FnPredict, parameters |-> <<ParamX, ParamY>>]>>, <<>>),
    PythonAnalysis(<<StrDataAnalysis>>, <<>>, <<>>),
    PythonAnalysis(<<StrPyTorch, StrDataAnalysis>>, <<>>, <<[name |-> ClsNet]>>),
    PythonAnalysis(<<StrFlask>>, <<>>, <<>>),
    PythonAnalysis(<<>>, <<[name |-> FnCallApi, parameters |-> <<>>]>>, <<>>) }

CallGenerateSemanticAnalysis ==
  \E analyses \in UNION {[1..n -> Analyses] : n \in 0..MaxAnalyses} :
    Call("generateSemanticAnalysis", analyses, generateSemanticAnalysis(analyses))

\* answers of the provider: an opening fence or none, white space, a body,
\* a closing fence or none, white space
Answers ==
  { open \o gap \o body \o close \o tail :
      open \in {<<>>, StrFence, StrFence \o StrMarkdown, StrFence \o <<"M","a","r","k","d","o","w","n">>},
      gap \in {<<>>, <<"\n">>},
      body \in {<<"#"," ","T">>, <<"a", "\n", Backtick, "b", Backtick>>,
                <<"#"," ","T","\n">> \o StrFence \o <<"\n","x">>},
      close \in {<<>>, StrFence, <<"\n">> \o StrFence},
      tail \in {<<>>, <<"\n">>} }
  \cup {StrFence \o StrFence}

CallStripFences ==
  \E readme \in Answers : Call("StripFences", readme, StripFences(readme))

CallStripFencesWebSocket ==
  \E readme \in Answers :
    Call("StripFencesWebSocket", readme, StripFencesWebSocket(readme))

(***************************************************************************)
(* analyzePythonCode.  A Python text is what the three patterns match in   *)
(* it: its import lines (imports), its def lines at the start of a line    *)
(* (defs: name and parameters) and its class lines (classes: the names),   *)
(* and its lines.                                                          *)
(***************************************************************************)
\* `frameworks` of analyzePythonCode, in the order of the object literal
PyFrameworks ==
  << <<<<"d","j","a","n","g","o">>, <<"D","j","a","n","g","o">>>>,
     <<<<"f","l","a","s","k">>, <<"F","l","a","s","k">>>>,
     <<<<"f","a","s","t","a","p","i">>, <<"F","a","s","t","A","P","I">>>>,
     <<<<"t","e","n","s","o","r","f","l","o","w">>, <<"T","e","n","s","o","r","F","l","o","w">>>>,
     <<<<"t","o","r","c","h">>, <<"P","y","T","o","r","c","h">>>>,
     <<<<"p","a","n","d","a","s">>, <<"D","a","t","a"," ","A","n","a","l","y","s","i","s">>>>,
     <<<<"n","u","m","p","y">>, <<"N","u","m","P","y">>>>,
     <<<<"m","a","t","p","l","o","t","l","i","b">>, <<"D","a","t","a"," ","V","i","s","u","a","l","i","z","a","t","i","o","n">>>>,
     <<<<"r","e","q","u","e","s","t","s">>, <<"H","T","T","P"," ","C","l","i","e","n","t">>>>,
     <<<<"s","q","l","a","l","c","h","e","m","y">>, <<"S","Q","L","A","l","c","h","e","m","y"," ","O","R","M">>>>,
     <<<<"r","e","d","i","s">>, <<"R","e","d","i","s"," ","C","a","c","h","e">>>>,
     <<<<"c","e","l","e","r","y">>, <<"T","a","s","k"," ","Q","u","e","u","e">>>> >>

\* `features` of analyzePythonCode, in the order of the object literal
PyFeatures ==
  << <<<<"a","u","t","h">>, <<"A","u","t","h","e","n","t","i","c","a","t","i","o","n"," ","S","y","s","t","e","m">>>>,
     <<<<"l","o","g","i","n">>, <<"L","o","g","i","n"," ","S","y","s","t","e","m">>>>,
     <<<<"p","r","e","d","i","c","t">>, <<"M","a","c","h","i","n","e"," ","L","e","a","r","n","i","n","g">>>>,
     <<<<"t","r","a","i","n">>, <<"M","L"," ","T","r","a","i","n","i","n","g">>>>,
     <<<<"m","o","d","e","l">>, <<"M","L"," ","M","o","d","e","l">>>>,
     <<<<"p","r","o","c","e","s","s">>, <<"D","a","t","a"," ","P","r","o","c","e","s","s","i","n","g">>>>,
     <<<<"a","n","a","l","y","z","e">>, <<"D","a","t","a"," ","A","n","a","l","y","s","i","s">>>>,
     <<<<"s","c","r","a","p","e">>, <<"W","e","b"," ","S","c","r","a","p","i","n","g">>>> >>

\* one import line: the values of the keys it includes that acc lacks
RECURSIVE PyFrameworksOfImport(_, _, _)
PyFrameworksOfImport(acc, match, k) ==
  IF k > Len(PyFrameworks) THEN acc
  ELSE PyFrameworksOfImport(
         IF Includes(match, PyFrameworks[k][1]) /\ ~Has(acc, PyFrameworks[k][2])
         THEN Append(acc, PyFrameworks[k][2]) ELSE acc,
         match, k + 1)

RECURSIVE PyFrameworksOf(_, _)
PyFrameworksOf(acc, imports) ==
  IF imports = <<>> THEN acc
  ELSE PyFrameworksOf(PyFrameworksOfImport(acc, Head(imports), 1), Tail(imports))

\* one def: for every key the lowered name includes and whose value the
\* features lack, the value joins the features and a line the businessLogic
RECURSIVE PyFeaturesOfDef(_, _, _)
PyFeaturesOfDef(acc, name, k) ==
  IF k > Len(PyFeatures) THEN acc
  ELSE PyFeaturesOfDef(
         IF Includes([i \in 1..Len(name) |-> LowerCase(name[i])], PyFeatures[k][1])
            /\ ~Has(acc.features, PyFeatures[k][2])
         THEN [features |-> Append(acc.features, PyFeatures[k][2]),
               businessLogic |-> Append(acc.businessLogic,
                                   PyFeatures[k][2] \o <<":", " ">> \o name \o <<"(", ")">>)]
         ELSE acc,
         name, k + 1)

RECURSIVE PyFeaturesOf(_, _)
PyFeaturesOf(acc, defs) ==
  IF defs = <<>> THEN acc
  ELSE PyFeaturesOf(PyFeaturesOfDef(acc, Head(defs).name, 1), Tail(defs))

analyzePythonCode(code, filename) ==
  LET found == PyFeaturesOf([features |-> <<>>, businessLogic |-> <<>>], code.defs)
  IN  [filename |-> filename, type |-> "python", imports |-> code.imports,
       functions |-> code.defs,
       classes |-> [k \in 1..Len(code.classes) |-> [name |-> code.classes[k]]],
       apis |-> <<>>,
       frameworks |-> PyFrameworksOf(<<>>, code.imports),
       features |-> found.features,
       businessLogic |-> found.businessLogic
                         \o [k \in 1..Len(code.classes) |-> StrClass \o code.classes[k]],
       codeSnippets |-> extractCodeSnippets(code.lines, filename, DefaultMaxLines)]

\* lines 287-291
AnalysisOf(file, content) ==
  IF AnalyzerFor(file.name) = "analyzeJavaScriptCode"
  THEN analyzeJavaScriptCode(content, file.name)
  ELSE IF AnalyzerFor(file.name) = "analyzePythonCode"
  THEN analyzePythonCode(content, file.name)
  ELSE IF AnalyzerFor(file.name) = "configuration"
  THEN ConfigAnalysis(file.name, content)
  ELSE analyzeCodeWithRegex([parse |-> FALSE, walk |-> FALSE, imports |-> <<>>,
                             counts |-> [k \in 1..Len(PatternNames) |-> 0],
                             lines |-> content], file.name)

\* the loop of performDeepCodeAnalysis over importantFiles; contentOf is what
\* fetchFileContent returns for a file name: a text, or null (text: FALSE)
RECURSIVE AnalyzeAll(_, _, _)
AnalyzeAll(acc, importantFiles_, contentOf) ==
  IF importantFiles_ = <<>> THEN acc
  ELSE LET file == Head(importantFiles_)
       IN  AnalyzeAll(
             IF ShouldFetch(file) /\ contentOf[file.name].text
             THEN Append(acc, AnalysisOf(file, contentOf[file.name].content)) ELSE acc,
             Tail(importantFiles_), contentOf)

performDeepCodeAnalysis(files_, contentOf) ==
  AnalyzeAll(<<>>, selectImportantFiles(files_), contentOf)

\* the files of a repository of one App.jsx and one package.json
FixtureFiles == <<FileNamed(NmAppJsx), FileNamed(NmPackageJson)>>

\* the fixture analysed and summarized, for every content of App.jsx
CallFixture ==
  \E code \in JsSources :
    Call("fixture", code,
         generateSemanticAnalysis(
           performDeepCodeAnalysis(
             FixtureFiles,
             [name \in {NmAppJsx, NmPackageJson} |->
                [text |-> TRUE,
                 content |-> IF name = NmAppJsx THEN code ELSE PackageJsonText]])))

NmRequirementsTxt == <<"r","e","q","u","i","r","e","m","e","n","t","s",".","t","x","t">>
\* the lines of a requirements.txt that names flask==2.0
RequirementsText == <<"other">>

\* def login(request):
DefLogin == [name |-> <<"l","o","g","i","n">>, parameters |-> <<<<"r","e","q","u","e","s","t">>>>]

\* Python texts that define login: with or without an import of flask,
\* with or without a second def
PySources ==
  [imports : {<<>>, <<<<"f","r","o","m"," ","f","l","a","s","k"," ","i","m","p","o","r","t"," ","F","l","a","s","k">>>>, <<<<"i","m","p","o","r","t"," ","p","a","n","d","a","s">>>>},
   defs : {<<DefLogin>>, <<[name |-> FnCallApi, parameters |-> <<>>], DefLogin>>},
   classes : {<<>>, <<ClsNet>>},
   lines : {<<"declaration", "other">>}]

\* the files of a repository of one app.py and one requirements.txt
PyFixtureFiles == <<FileNamed(NmAppPy), FileNamed(NmRequirementsTxt)>>

\* that fixture analysed and summarized
CallPyFixture ==
  \E code \in PySources :
    Call("pyFixture", code,
         generateSemanticAnalysis(
           performDeepCodeAnalysis(
             PyFixtureFiles,
             [name \in {NmAppPy, NmRequirementsTxt} |->
                [text |-> TRUE,
                 content |-> IF name = NmAppPy THEN code ELSE RequirementsText]])))

NextFun ==
  \/ CallAnalyzeJavaScriptCode
  \/ CallParseGitHubUrl
  \/ CallParseGitHubUrlPatterns
  \/ CallSelectImportantFiles
  \/ CallExtractCodeSnippets
  \/ CallGenerateSemanticAnalysis
  \/ CallStripFences
  \/ CallStripFencesWebSocket
  \/ CallFixture
  \/ CallPyFixture

FunSpec == InitPlain /\ [][NextFun]_vars

(***************************************************************************)
(* Properties.                                                             *)
(***************************************************************************)
\* the events the run has written (the 'connected' event is written by the
\* handler of GET /progress/:sessionId)
RunLog == SelectSeq(log, LAMBDA e : e.step # "connected")

\* the events written to connection c
ConnLog(c) == SelectSeq(log, LAMBDA e : e.conn = c)

Terminal(e) == e.step \in {"complete", "error"}

\* the events a step appends to the log
NewEvents == {log'[k] : k \in (Len(log) + 1)..Len(log')}

\* C1: within one run the progress values written to the progress channel,
\* the final complete/error event included, never decrease.
C1_ProgressNonDecreasing ==
  \A i \in 1..Len(RunLog) : \A j \in 1..Len(RunLog) :
    i < j => RunLog[i].progress <= RunLog[j].progress

\* C2: when the handler has returned and the progress connection that was
\* registered under the run's sessionId is still the client's (it has not
\* closed), the last event written to it is 'complete' or 'error' and it is
\* the only such event.
C2_StreamTerminated ==
  (pc = "done" /\ connAtStart # NoConn /\ conn[connAtStart].state # "closed")
    => LET cl == ConnLog(connAtStart)
       IN  /\ Terminal(cl[Len(cl)])
           /\ Cardinality({k \in 1..Len(cl) : Terminal(cl[k])}) = 1

\* C3: once the run has ended and no cleanup timer is pending (nothing of
\* the run is left to execute), the registry does not hold the connection
\* that was registered under the run's sessionId.
C3_EntryRemoved ==
  (pc = "done" /\ ~timer /\ connAtStart # NoConn)
    => activeConnections[sessionId] # connAtStart

\* the server has seen the close event of a progress connection of the
\* run's session after the client stopped the run
CancelObserved ==
  stopped /\ \E c \in Conns : conn[c].state = "closed" /\ conn[c].sid = sessionId

\* C4: once the cancellation is observed, no step writes an event to a
\* connection that has closed and no step delivers the README to the client.
C4_NothingAfterCancel ==
  [][CancelObserved =>
       /\ \A e \in NewEvents : conn[e.conn].state # "closed"
       /\ delivered' = delivered]_vars

\* C4: the run was cancelled while it crawled, has run to its success
\* response since, and neither the 'complete' event nor the README went out
C4_Witness ==
  /\ CancelObserved
  /\ pc = "done" /\ resp.status = 200
  /\ connAtStart # NoConn
  /\ Len(ConnLog(connAtStart)) >= 3
  /\ \A k \in 1..Len(log) : ~Terminal(log[k])
  /\ ~delivered

\* a directory name that fetchRepoFiles must not descend into
ExcludedDir(name) == StartsWith(name, <<".">>) \/ name \in ExcludedNames

\* the file at `path` lies under an excluded directory
UnderExcluded(path) == \E k \in 1..(Len(path) - 1) : ExcludedDir(path[k])

\* every file a call of fetchRepoFiles has collected or returned
CollectedFiles ==
  {files[k] : k \in 1..Len(files)}
    \cup UNION {{stack[n].files[k] : k \in 1..Len(stack[n].files)} :
                n \in 1..Len(stack)}

\* C5: no listing request is issued at a depth above 3, and no file that
\* fetchRepoFiles collects lies under a directory whose name starts with '.'
\* or is one of the excluded names.
C5_DepthAndExclusion ==
  /\ \A d \in listDepths : d <= DepthBound
  /\ \A f \in CollectedFiles : ~UnderExcluded(f.path)

\* C5: a crawl that listed a directory at depth 3, met an excluded
\* directory and returned a file read at depth 3
C5_Witness ==
  /\ pc = "analyze"
  /\ DepthBound \in listDepths
  /\ \E d \in dirsMet : ExcludedDir(d)
  /\ \E k \in 1..Len(files) : Len(files[k].path) = DepthBound + 1

\* the paths of a sequence of files
Paths(fs) == [k \in 1..Len(fs) |-> fs[k].path]

\* the files the host served that are below the size limit
KeptOf(served) == SelectSeq(served, LAMBDA f : f.size < MaxFileSize)

\* C6: a failed root listing ends the run with the error of that listing
\* and no file; after a root listing that succeeded, the crawl returns
\* every file below the size limit that any loop has read, in the order
\* read, whatever listings failed below the root, and the run never ends
\* with the error of a listing.
C6_RootPropagatesSubtreeSwallowed ==
  /\ (pc = "done" /\ rootStatus \notin {0, 200})
       => /\ resp.status # 200
          /\ resp.error = ErrorBody(makeRequestError(rootStatus))
          /\ files = <<>>
  /\ (pc \in {"analyze", "gemini", "done"} /\ rootStatus = 200)
       => /\ Paths(files) = Paths(KeptOf(servedFiles))
          /\ \A st \in HostStatuses :
               resp.error # ErrorBody(makeRequestError(st))

\* C6: a listing below the root failed and the crawl returned files
C6_Witness ==
  /\ pc = "analyze"
  /\ \E d \in failedDepths : d >= 1
  /\ Len(files) >= 1

\* progress events of the run other than its terminal event
ProgressEvents == SelectSeq(RunLog, LAMBDA e : ~Terminal(e))

\* C7: a run whose root listing answered 404 ends with the response status
\* 404, no file analysis and at most one progress event.
C7_RootNotFound ==
  (pc = "done" /\ rootStatus = 404)
    => /\ resp.status = 404
       /\ codeAnalysis = <<>>
       /\ Len(ProgressEvents) <= 1

\* C8: a run whose root listing answered 429 ends with the response status
\* 429.
C8_RootRateLimited ==
  (pc = "done" /\ rootStatus = 429) => resp.status = 429

\* the request bodies whose repoUrl is present and parseGitHubUrl rejects
RejectedUrls == {u \in UrlInputs : u # <<>> /\ parseGitHubUrl(u) = Null}

NoCalls == [meta |-> 0, list |-> 0, content |-> 0, gemini |-> 0]

\* C9: a request whose repoUrl parseGitHubUrl rejects ends at once with the
\* 400 'Invalid GitHub URL format' response and without any external call.
C9_InvalidUrlNoWork ==
  (pc # "idle" /\ repoUrl \in RejectedUrls)
    => /\ pc = "done"
       /\ resp = [status |-> 400, error |-> StrInvalidUrl, readme |-> FALSE]
       /\ calls = NoCalls

\* C9: the request with repoUrl "o/r" has been answered
C9_Witness ==
  /\ pc = "done"
  /\ repoUrl = <<"o","/","r">>
  /\ repoUrl \in RejectedUrls
  /\ resp.status = 400

\* the error of a failed generation
GenerationError(msg) == msg = StrNoContent \/ StartsWith(msg, StrGeminiError)

\* C10: the generative API is called at most once, only after the crawl
\* returned a file and every important file was processed; when it fails or
\* answers without text the run ends with a generation error and the call
\* count stays at one.
C10_GenerativeCallOnce ==
  /\ calls.gemini <= 1
  /\ calls.gemini = 1
       => /\ pc \in {"gemini", "done"}
          /\ Len(files) >= 1
          /\ processedFiles = Len(importantFiles)
  /\ geminiResult \in {"error", "empty"}
       => /\ pc = "done"
          /\ calls.gemini = 1
          /\ resp.status # 200 /\ ~resp.readme
          /\ GenerationError(resp.error)
  /\ geminiResult = "ok" => calls.gemini = 1

\* C10: the generative API answered with an error status
C10_Witness ==
  /\ pc = "done"
  /\ geminiResult = "error"
  /\ calls.gemini = 1
  /\ ~resp.readme

\* the important files up to position n that performDeepCodeAnalysis fetches
FetchedUpTo(n) == {k \in 1..n : ShouldFetch(importantFiles[k])}

\* C11: the analyses are, in the order of importantFiles, exactly one for
\* each file whose content fetch gave text; a fetch that gave nothing adds
\* no analysis and every processed file that qualifies has been fetched,
\* whatever the fetches before it gave.
C11_OneAnalysisPerText ==
  /\ Len(codeAnalysis) = Len(textFiles)
  /\ \A k \in 1..Len(codeAnalysis) :
       codeAnalysis[k].filename = importantFiles[textFiles[k]].name
  /\ calls.content = Cardinality(FetchedUpTo(processedFiles))
  /\ pc = "gemini" => processedFiles = Len(importantFiles)

\* C11: the fetch of the first important file gave no text, the fetch of a
\* later one did, and the analysis has finished
C11_Witness ==
  /\ pc = "gemini"
  /\ ShouldFetch(importantFiles[1])
  /\ Len(textFiles) >= 1
  /\ textFiles[1] > 1

\* the fields of a file analysis
AnalysisFields == {"filename", "type", "features", "businessLogic", "codeSnippets"}

\* C12: a call of analyzeJavaScriptCode returns, whatever the text; when the
\* parser or the tree walk fails, what it returns is the analysis of
\* analyzeCodeWithRegex, which has every field of a file analysis.
C12_AnalyzerNeverThrows ==
  unitCall.fn = "analyzeJavaScriptCode"
    => /\ unitCall.res # Thrown
       /\ AnalysisFields \subseteq DOMAIN unitCall.res
       /\ unitCall.res.filename = unitCall.arg.filename
       /\ (~unitCall.arg.code.parse \/ ~unitCall.arg.code.walk)
            => unitCall.res = analyzeCodeWithRegex(unitCall.arg.code,
                                                   unitCall.arg.filename)

\* C12: the parser rejected the text and the fallback found a feature
C12_Witness ==
  /\ unitCall.fn = "analyzeJavaScriptCode"
  /\ ~unitCall.arg.code.parse
  /\ unitCall.res.type = "unknown"
  /\ Len(unitCall.res.features) >= 1

ParserCalls == {"parseGitHubUrl", "parseGitHubUrlPatterns"}

\* C13: every reference to the repository r of the owner o (shorthand or
\* github.com URL, with or without protocol, trailing slash, .git suffix or
\* further path segments) parses to owner o and repository r.
C13_SameRepoRef ==
  (unitCall.fn \in ParserCalls /\ unitCall.arg \in ValidRefs)
    => unitCall.res = [owner |-> <<"o">>, repo |-> <<"r">>]

\* C14: every malformed reference (no slash between owner and repository,
\* white space inside the owner or the repository) parses to null.
C14_MalformedRejected ==
  (unitCall.fn \in ParserCalls /\ unitCall.arg \in MalformedRefs)
    => unitCall.res = Null

\* C15: the list selectImportantFiles returns is ordered by priority, no
\* entry having a higher priority than the entry before it, and holds at
\* most 50 entries.
C15_SortedAndCapped ==
  unitCall.fn = "selectImportantFiles"
    => /\ Len(unitCall.res) <= 50
       /\ \A i \in 1..Len(unitCall.res) - 1 :
            unitCall.res[i].priority >= unitCall.res[i + 1].priority

\* more files than the slice keeps, of several priorities, given in an
\* order that is not the order of their priorities
C15_Witness ==
  /\ unitCall.fn = "selectImportantFiles"
  /\ Len(unitCall.arg) > 50
  /\ Len(unitCall.res) = 50
  /\ unitCall.res[1].priority > unitCall.res[50].priority
  /\ \E i \in 1..50 : Priority(unitCall.arg[i].name) < Priority(unitCall.arg[i + 1].name)

\* a is b with some of its elements left out
RECURSIVE IsSubsequence(_, _)
IsSubsequence(a, b) ==
  IF a = <<>> THEN TRUE
  ELSE IF b = <<>> THEN FALSE
  ELSE IF Head(a) = Head(b) THEN IsSubsequence(Tail(a), Tail(b))
  ELSE IsSubsequence(a, Tail(b))

TooLong == unitCall.fn = "extractCodeSnippets"
           /\ Len(unitCall.arg.lines) > unitCall.arg.maxLines

\* C16 as stated: for every text of more than maxLines lines and every
\* filename, extractCodeSnippets returns exactly maxLines lines, which are
\* lines of the text in their original order.
C16_ExactlyMaxLines ==
  TooLong => /\ Len(unitCall.res) = unitCall.arg.maxLines
             /\ IsSubsequence(unitCall.res, unitCall.arg.lines)

\* C16: for every text of more than maxLines lines, extractCodeSnippets
\* returns lines of the text in their original order: exactly maxLines of
\* them when the filename is none of the five configuration names, and the
\* first min(150, n) lines of the n when it is one (a head of the text is
\* a subsequence of it).
C16_ExactlyMaxLinesOrConfigHead ==
  TooLong => IF unitCall.arg.filename \in ConfigNames
             THEN /\ Len(unitCall.res) = Min(150, Len(unitCall.arg.lines))
                  /\ \A i \in 1..Len(unitCall.res) : unitCall.res[i] = unitCall.arg.lines[i]
             ELSE /\ Len(unitCall.res) = unitCall.arg.maxLines
                  /\ IsSubsequence(unitCall.res, unitCall.arg.lines)

\* a source file whose selected lines are not its first lines
C16_Witness ==
  /\ TooLong
  /\ unitCall.arg.filename \notin ConfigNames
  /\ Len(unitCall.res) = unitCall.arg.maxLines
  /\ unitCall.res # SubSeq(unitCall.arg.lines, 1, unitCall.arg.maxLines)

Summarized == unitCall.fn = "generateSemanticAnalysis"

\* some analysis handed to generateSemanticAnalysis holds x in its field
Traced(field, x) ==
  \E k \in 1..Len(unitCall.arg) :
    /\ field \in DOMAIN unitCall.arg[k]
    /\ \E j \in 1..Len(unitCall.arg[k][field]) : unitCall.arg[k][field][j] = x

\* C17: every entry of technicalStack is among the frameworks of one of the
\* analyses, and every entry of mainFeatures among the features of one.
C17_NothingFabricated ==
  Summarized
    => /\ \A k \in 1..Len(unitCall.res.technicalStack) :
            Traced("frameworks", unitCall.res.technicalStack[k])
       /\ \A k \in 1..Len(unitCall.res.mainFeatures) :
            Traced("features", unitCall.res.mainFeatures[k])

\* two analyses, one of them without frameworks, that give a stack and a
\* feature
C17_Witness ==
  /\ Summarized
  /\ \E k \in 1..Len(unitCall.arg) : "frameworks" \notin DOMAIN unitCall.arg[k]
  /\ unitCall.res.technicalStack # <<>>
  /\ unitCall.res.mainFeatures # <<>>

\* a business-logic entry of the summary names an API
ApiEntry ==
  \E k \in 1..Len(unitCall.res.businessLogic) :
    Includes(unitCall.res.businessLogic[k], <<"A","P","I">>)

Frontend == Traced("frameworks", <<"R","e","a","c","t">>)
Backend == \/ Traced("frameworks", <<"E","x","p","r","e","s","s",".","j","s">>)
           \/ Traced("frameworks", <<"D","j","a","n","g","o">>)
           \/ Traced("frameworks", <<"F","l","a","s","k">>)
Learning == \/ Traced("frameworks", <<"T","e","n","s","o","r","F","l","o","w">>)
            \/ Traced("frameworks", <<"P","y","T","o","r","c","h">>)
DataTool == Traced("frameworks", <<"D","a","t","a"," ","A","n","a","l","y","s","i","s">>)

\* C18: projectPurpose is the label of the first rule that matches, in the
\* order React, server framework, ML framework, API entry, data analysis,
\* none.
C18_FirstMatchingRule ==
  Summarized
    => unitCall.res.projectPurpose =
         CASE Frontend -> "Frontend Web Application"
           [] ~Frontend /\ Backend -> "Backend API Server"
           [] ~Frontend /\ ~Backend /\ Learning -> "Machine Learning Application"
           [] ~Frontend /\ ~Backend /\ ~Learning /\ ApiEntry -> "API Service"
           [] ~Frontend /\ ~Backend /\ ~Learning /\ ~ApiEntry /\ DataTool -> "Data Analysis Tool"
           [] OTHER -> "Software Application"

\* analyses that match the first, the second and the fourth rule
C18_Witness ==
  /\ Summarized
  /\ Frontend /\ Backend /\ ApiEntry
  /\ unitCall.res.projectPurpose = "Frontend Web Application"

Stripped == unitCall.fn \in {"StripFences", "StripFencesWebSocket"}

\* the answer is wrapped: it starts with a fence and ends with one, a line
\* break at most behind it
WrappedAnswer ==
  /\ StartsWith(unitCall.arg, StrFence)
  /\ Len(unitCall.arg) > 2 * Len(StrFence)
  /\ \/ EndsWith(unitCall.arg, StrFence)
     \/ EndsWith(unitCall.arg, StrFence \o <<"\n">>)

\* C19: the post-processing removes the opening and the closing fence of a
\* wrapped answer, the closing fence followed by a line break included, and
\* returns an answer without any fence as it is.
C19_FencesStripped ==
  Stripped
    => /\ WrappedAnswer
            => (~StartsWith(unitCall.res, StrFence) /\ ~EndsWith(unitCall.res, StrFence))
       /\ ~Includes(unitCall.arg, StrFence) => unitCall.res = unitCall.arg

\* C20: the summary of the fixture (a package.json that declares react, and
\* an App.jsx of any content) has React in technicalStack and the purpose
\* Frontend Web Application.
C20_FixtureIsReactFrontend ==
  unitCall.fn = "fixture"
    => /\ \E k \in 1..Len(unitCall.res.technicalStack) :
            unitCall.res.technicalStack[k] = <<"R","e","a","c","t">>
       /\ unitCall.res.projectPurpose = "Frontend Web Application"

\* the labels that name authentication
AuthLabels ==
  { <<"A","u","t","h","e","n","t","i","c","a","t","i","o","n"," ","S","y","s","t","e","m">>,
    <<"L","o","g","i","n"," ","S","y","s","t","e","m">>,
    <<"A","u","t","h","e","n","t","i","c","a","t","i","o","n">> }

\* C21: the summary of the fixture (a requirements.txt that names flask, a
\* Python file that defines login) has an authentication label among its
\* mainFeatures and the purpose Backend API Server or API Service.
C21_PyFixtureIsBackend ==
  unitCall.fn = "pyFixture"
    => /\ \E k \in 1..Len(unitCall.res.mainFeatures) :
            unitCall.res.mainFeatures[k] \in AuthLabels
       /\ unitCall.res.projectPurpose \in {"Backend API Server", "API Service"}

\* the keywords of the bonuses of selectImportantFiles
BonusKeywords ==
  { <<"r","o","u","t","e">>,
    <<"a","p","i">>,
    <<"m","o","d","e","l">>,
    <<"c","o","n","t","r","o","l","l","e","r">>,
    <<"s","e","r","v","i","c","e">>,
    <<"u","t","i","l","s">>,
    <<"m","i","d","d","l","e","w","a","r","e">>,
    <<"a","u","t","h">> }

HasKeyword(text) == \E w \in BonusKeywords : Includes(text, w)

\* C22: of two files of the same name, which holds no keyword, the one whose
\* path holds a keyword has the higher priority.
C22_PathKeywordScoresHigher ==
  unitCall.fn = "selectImportantFiles"
    => \A i, j \in 1..Len(unitCall.res) :
         ( /\ unitCall.res[i].name = unitCall.res[j].name
           /\ ~HasKeyword(unitCall.res[i].name)
           /\ HasKeyword(unitCall.res[i].path)
           /\ ~HasKeyword(unitCall.res[j].path) )
         => unitCall.res[i].priority > unitCall.res[j].priority

\* the files handed to selectImportantFiles differ in their paths
DistinctPaths ==
  \A i, j \in 1..Len(unitCall.arg) :
    unitCall.arg[i].path = unitCall.arg[j].path => i = j

\* the position in the input of the file of that path
InputIndex(path) == CHOOSE i \in 1..Len(unitCall.arg) : unitCall.arg[i].path = path

\* a goes before b in the stable descending order
Before(pa, ia, pb, ib) == pa > pb \/ (pa = pb /\ ia < ib)

\* C23: the output is the head (50 files at most) of the input in the stable
\* descending order of the priorities: it is in that order, and every file
\* it drops comes after every file it keeps.
C23_HeadOfStableSort ==
  (unitCall.fn = "selectImportantFiles" /\ DistinctPaths)
    => LET res == unitCall.res
           arg == unitCall.arg
           kept == {InputIndex(res[k].path) : k \in 1..Len(res)}
       IN  /\ Len(res) = Min(Len(arg), 50)
           /\ \A k \in 1..Len(res) :
                /\ \E i \in 1..Len(arg) : arg[i].path = res[k].path
                /\ res[k].name = arg[InputIndex(res[k].path)].name
                /\ res[k].priority = Priority(res[k].name)
           /\ \A k \in 1..Len(res) - 1 :
                Before(res[k].priority, InputIndex(res[k].path),
                       res[k + 1].priority, InputIndex(res[k + 1].path))
           /\ \A d \in (1..Len(arg)) \ kept : \A i \in kept :
                Before(Priority(arg[i].name), i, Priority(arg[d].name), d)

\* more than 50 files, one of the dropped of the priority of one of the kept
C23_Witness ==
  /\ unitCall.fn = "selectImportantFiles" /\ DistinctPaths
  /\ Len(unitCall.arg) > 50
  /\ \E d \in 1..Len(unitCall.arg) :
       /\ \A k \in 1..Len(unitCall.res) : unitCall.res[k].path # unitCall.arg[d].path
       /\ unitCall.res[Len(unitCall.res)].priority = Priority(unitCall.arg[d].name)

\* the priorities of the classes of lines
ClassPriority(kind) ==
  CASE kind \in {"empty", "comment"} -> 1
    [] kind = "declaration" -> 15
    [] kind = "call" -> 12
    [] kind = "control" -> 9
    [] kind = "binding" -> 7
    [] kind = "other" -> 5

\* a call for a source file whose lines differ from each other
DistinctLines ==
  /\ TooLong
  /\ unitCall.arg.filename \notin ConfigNames
  /\ \A i, j \in 1..Len(unitCall.arg.lines) :
       unitCall.arg.lines[i] = unitCall.arg.lines[j] => i = j

\* C24: of a source file of more than maxLines lines, extractCodeSnippets
\* keeps maxLines lines, the head of the stable descending order of the
\* priorities: every kept line goes before every dropped line in that order.
C24_KeptLinesAreHeadOfSort ==
  DistinctLines
    => LET lines == unitCall.arg.lines
           kept == {i \in 1..Len(lines) :
                      \E k \in 1..Len(unitCall.res) : unitCall.res[k] = lines[i]}
       IN  /\ Cardinality(kept) = unitCall.arg.maxLines
           /\ Len(unitCall.res) = unitCall.arg.maxLines
           /\ \A i \in kept : \A d \in (1..Len(lines)) \ kept :
                Before(ClassPriority(lines[i]), i, ClassPriority(lines[d]), d)

\* a kept and a dropped line of one priority, and a kept line that comes
\* later in the file than a dropped one
C24_Witness ==
  /\ DistinctLines
  /\ \E k \in 1..Len(unitCall.res) : unitCall.res[k] \in {"empty", "comment"}
  /\ \E d \in 1..Len(unitCall.arg.lines) :
       /\ unitCall.arg.lines[d] \in {"empty", "comment"}
       /\ \A k \in 1..Len(unitCall.res) : unitCall.res[k] # unitCall.arg.lines[d]
  /\ unitCall.arg.lines[Len(unitCall.arg.lines)] = "declaration"
  /\ unitCall.res[Len(unitCall.res)] = "declaration"

\* C25: an answer that does not start with a fence and ends with one (the
\* end of its last code block) keeps that fence.
C25_ClosingFenceOfDocumentKept ==
  ( /\ unitCall.fn = "StripFences"
    /\ ~StartsWith(unitCall.arg, StrFence)
    /\ EndsWith(unitCall.arg, StrFence) )
    => EndsWith(unitCall.res, StrFence)

\* C26: for every source text the parser accepts, a declaration without a
\* name included, analyzeJavaScriptCode returns the structural analysis.
C26_FallbackOnlyOnParseFailure ==
  (unitCall.fn = "analyzeJavaScriptCode" /\ unitCall.arg.code.parse)
    => /\ unitCall.res.type = "javascript"
       /\ "frameworks" \in DOMAIN unitCall.res

\* c is the connection registered last for its sessionId
LastRegistered(c) ==
  /\ conn[c].state # "unused"
  /\ \A d \in DOMAIN conn :
       (d > c /\ conn[d].state # "unused") => conn[d].sid # conn[c].sid

\* C27: a connection that is open and was registered last for its sessionId
\* is the entry of that sessionId.
C27_NewerEntryKept ==
  \A c \in DOMAIN conn :
    (conn[c].state = "open" /\ LastRegistered(c))
      => activeConnections[conn[c].sid] = c

\* connection c was registered after the 'complete' event of the run
RegisteredAfterComplete(c) ==
  \E i, j \in 1..Len(log) :
    /\ i < j
    /\ log[i].step = "complete"
    /\ log[j].conn = c /\ log[j].step = "connected"

\* C28: a connection registered after the 'complete' event is not ended by
\* the cleanup timer of the run (after 'complete' the handler has returned,
\* so the timer is the only code of the server that ends a connection).
C28_TimerSparesLaterConnection ==
  \A c \in DOMAIN conn : RegisteredAfterComplete(c) => conn[c].state # "ended"

\* C29: the first event of a run, 'initializing', which the handler emits
\* before its first request to the host, is on a connection of the
\* sessionId, whichever of the GET and the POST of the client arrives first.
C29_NoEventLost ==
  (sessionId # NoSession /\ calls.meta > 0)
    => \E k \in 1..Len(log) :
         log[k].step = "initializing" /\ conn[log[k].conn].sid = sessionId


(***************************************************************************)
(* C30.  The crawl is bounded by the code alone, whatever the host serves. *)
(***************************************************************************)
RECURSIVE ListingsFrom(_)
\* the listing requests a call of fetchRepoFiles at a depth can issue: its
\* own, and those of the calls its loop can make
ListingsFrom(depth) ==
  IF TooDeep(depth) THEN 0
  ELSE 1 + (IF depth < DepthBound THEN ItemCap * ListingsFrom(depth + 1) ELSE 0)

\* the listing requests the calls for `items` entries of a listing can issue
SubListings(depth, items) ==
  IF depth < DepthBound THEN items * ListingsFrom(depth + 1) ELSE 0

\* the listing requests frame k of the stack can still issue; the entry a
\* frame below the top is at is the call of the frame above it
PendingOf(k) ==
  LET f == stack[k]
  IN  CASE f.state = "entry"   -> ListingsFrom(f.depth)
        [] f.state = "listing" -> SubListings(f.depth, ItemCap)
        [] OTHER -> SubListings(f.depth,
                                f.total - f.i - (IF k < Len(stack) THEN 1 ELSE 0))

RECURSIVE PendingOver(_)
PendingOver(k) == IF k = 0 THEN 0 ELSE PendingOf(k) + PendingOver(k - 1)

RECURSIVE StepsFrom(_)
\* the steps a call of fetchRepoFiles at a depth can take: the depth test,
\* the answer to its request, its return, and for each entry of the loop the
\* iteration and the call it can make
StepsFrom(depth) ==
  IF TooDeep(depth) THEN 1
  ELSE 3 + ItemCap * (1 + (IF depth < DepthBound THEN StepsFrom(depth + 1)
                                                ELSE 0))

\* the steps `items` entries of the loop of a call can take
ItemSteps(depth, items) ==
  items * (1 + (IF depth < DepthBound THEN StepsFrom(depth + 1) ELSE 0))

\* the steps frame k of the stack can still take
StepsOf(k) ==
  LET f == stack[k]
  IN  CASE f.state = "entry"   -> StepsFrom(f.depth)
        [] f.state = "listing" -> StepsFrom(f.depth) - 1
        [] OTHER -> 1 + ItemSteps(f.depth,
                                  f.total - f.i
                                    - (IF k < Len(stack) THEN 1 ELSE 0))

RECURSIVE StepsOver(_)
StepsOver(k) == IF k = 0 THEN 0 ELSE StepsOf(k) + StepsOver(k - 1)

\* the steps the crawl under way can still take
CrawlRank == StepsOver(Len(stack))

\* the state part of C30: every call is at a depth of 0 to 3 and one level
\* below its caller, every listing request was issued at a depth of 0 to 3,
\* a loop reads at most the first 150 entries of its listing, and the
\* requests issued plus those still possible never exceed what the depth
\* and entry limits allow
CrawlBounded ==
  /\ listDepths \subseteq 0..DepthBound
  /\ Len(stack) <= DepthBound + 1
  /\ \A k \in 1..Len(stack) :
       /\ stack[k].depth = k - 1
       /\ stack[k].i <= stack[k].total
       /\ stack[k].total <= ItemCap
       /\ stack[k].total <= stack[k].listed
  /\ calls.list + PendingOver(Len(stack)) <= ListingsFrom(0)
  /\ CrawlRank \in 0..StepsFrom(0)
  /\ pc = "crawl" => stack # <<>>

\* C30: fetchRepoFiles terminates whatever the host answers, a listing of
\* any length at any depth or an error: it reads at most the first 150
\* entries of a listing and lists directories only at depths 0 to 3, so the
\* listing requests issued and still possible stay within a fixed bound, and
\* every step of the crawl, the last one (return or throw) included, lowers
\* a natural number that the two limits bound
C30_CrawlBoundedAndEnds ==
  /\ []CrawlBounded
  /\ [][pc = "crawl" => CrawlRank' < CrawlRank]_vars

\* a listing of more than 150 entries whose loop has stopped at the 150th
C30_Witness ==
  /\ pc = "crawl"
  /\ stack # <<>>
  /\ Top(stack).state = "loop"
  /\ Top(stack).listed > ItemCap
  /\ Top(stack).i = ItemCap
  /\ Top(stack).i = Top(stack).total

====
